---- MODULE Spec2Model ----
(***************************************************************************)
(* TinyInfiniTensor core: the dataflow graph (tensors, operators and their *)
(* cross links), topological sort, the optimizer passes (inverse-transpose *)
(* elimination, transpose-into-matmul fusion) and the arena allocator.     *)
(*                                                                         *)
(* Objects are identified by integers: a tensor by its position in `tens`  *)
(* (its fuid), an operator by its position in `oper` (its guid).  The       *)
(* graph's lists `tensors` and `ops` say which objects are in the graph.   *)
(* References between objects (source, targets, predecessors, successors,  *)
(* inputs, outputs) are identifiers.                                       *)
(*                                                                         *)
(* An operator is owned by `ops`, by the caller that was handed its Ref    *)
(* (field `held`) and by the local variables of the function that is       *)
(* running (`pinned`); without an owner it is destroyed.  Its record stays *)
(* in `oper`, and the links to it (source, targets, predecessors,          *)
(* successors are weak references) are then expired: getSource gives       *)
(* nullptr, and getTargets, getPredecessors and getSuccessors throw        *)
(* std::bad_weak_ptr (`thrown`).  The caller is handed a Ref by            *)
(* addOpWithOutputs and addOp and lets go of it when it likes, at once     *)
(* when the call is a statement of its own (action Release); it may copy   *)
(* the Ref of a listed operator out of getOperators (action GetOperators). *)
(*                                                                         *)
(* The Runtime answers a request for a buffer with a pointer, or, when it  *)
(* fails, with nullptr.  An optimize call whose loop does not end is a     *)
(* call that stays running (`hung`): no other call follows it.  A          *)
(* shape_infer call that dereferences the null Tensor of getTensor ends    *)
(* the process (`killed`): nothing follows it, the destructor included.    *)
(***************************************************************************)
EXTENDS Integers, Sequences, FiniteSets, TLC

VARIABLES
    tensors,    \* GraphObj::tensors, the tensor list (fuids, insertion order)
    ops,        \* GraphObj::ops, the operator list (guids)
    tens,       \* every TensorObj created so far: shape, source, targets, data
    oper,       \* every OperatorObj created so far
    sorted,     \* GraphObj::sorted
    used,       \* Allocator::used
    peak,       \* Allocator::peak
    freeBlocks, \* Allocator::freeBlocks, the std::map addr -> size as a function
    ptr,        \* Allocator::ptr (None until getPtr)
    runtime,    \* the calls the Runtime has received: sizes of alloc, number of dealloc
    destroyed,  \* the graph and its allocator have been destructed
    caller,     \* the caller's record of its own Allocator::alloc / free calls
    last        \* the last public call: its name, what it returned, the graph and arena
                \* before it, and for a free function its arguments and value

vars == <<tensors, ops, tens, oper, sorted, used, peak, freeBlocks, ptr,
          runtime, destroyed, caller, last>>

---------------------------------------------------------------------------
(* Bounds of the model *)

MaxTensors == 5     \* tensors created by addTensor
MaxOps == 3         \* operators in existence when addOpWithOutputs may still be called
MaxAllocs == 5      \* successful calls of Allocator::alloc made by the caller
MaxCommitAllocs == 2    \* the same, next to dataMalloc
MaxNulls == 2       \* requests the runtime answers with nullptr

(* Program constants *)

None == 0           \* nullptr / empty Ref
NoData == -1        \* a tensor whose data blob is not bound
ElemBytes == 4      \* DataType::Float32 / UInt32 element size
BasePtr == 4096     \* the address the runtime hands out

---------------------------------------------------------------------------
(* Sequence helpers (std::vector operations) *)

\* std::find(v.begin(), v.end(), x) != v.end()
InSeq(s, x) == \E i \in 1..Len(s) : s[i] = x

\* the elements of a vector as a set
Range(s) == { s[i] : i \in 1..Len(s) }

\* index of the first occurrence of x in s (0 when absent)
IndexOf(s, x) == IF InSeq(s, x) THEN CHOOSE i \in 1..Len(s) : s[i] = x /\ \A j \in 1..(i-1) : s[j] # x ELSE 0

\* it = std::find(...); if (it != end) v.erase(it)
EraseFirst(s, x) ==
    LET k == IndexOf(s, x)
    IN IF k = 0 THEN s ELSE [i \in 1..(Len(s) - 1) |-> IF i < k THEN s[i] ELSE s[i + 1]]

\* erase every occurrence of x (the erase loops of removeTarget, removePredecessors, ...)
EraseAll(s, x) == SelectSeq(s, LAMBDA e : e # x)

---------------------------------------------------------------------------
(* The graph as a value: the fields of GraphObj plus the object tables. *)

Graph ==
    [tensors |-> tensors, ops |-> ops, tens |-> tens, oper |-> oper, sorted |-> sorted,
     pinned |-> {}, thrown |-> FALSE]

EmptyGraph ==
    [tensors |-> <<>>, ops |-> <<>>, tens |-> <<>>, oper |-> <<>>, sorted |-> FALSE,
     pinned |-> {}, thrown |-> FALSE]

\* TensorObj(dim, dtype, runtime)
NewTensor(shape) == [shape |-> shape, source |-> None, targets |-> <<>>, data |-> NoData]

\* OperatorObj(type, inputs, outputs) with the attributes of its kind
NewOperator(type, inputs, outputs, transA, transB, permute) ==
    [type |-> type, inputs |-> inputs, outputs |-> outputs,
     predecessors |-> <<>>, successors |-> <<>>,
     transA |-> transA, transB |-> transB, permute |-> permute, held |-> FALSE]

(* Ownership of operators.  In every operator below a graph in which an
   exception is in flight (thrown) is passed on unchanged: the statements
   after the throw are not executed. *)

\* operator o still exists: ops, the caller or a local variable owns it
Alive(g, o) == InSeq(g.ops, o) \/ g.oper[o].held \/ o \in g.pinned

\* wrefs_to_refs(list) throws: some weak reference of the list is expired
Expired(g, list) == \E k \in 1..Len(list) : ~Alive(g, list[k])

\* std::bad_weak_ptr leaves the function; its local variables are released
Throw(g) == [g EXCEPT !.thrown = TRUE, !.pinned = {}]

\* local variables take and release operators
Pin(g, S) == IF g.thrown THEN g ELSE [g EXCEPT !.pinned = S \ {None}]
Unpin(g) == [g EXCEPT !.pinned = {}]

(* TensorObj *)
addTarget(g, t, o) == IF g.thrown THEN g ELSE [g EXCEPT !.tens[t].targets = Append(@, o)]
removeTarget(g, t, o) == IF g.thrown THEN g ELSE [g EXCEPT !.tens[t].targets = EraseAll(@, o)]
setSource(g, t, o) == IF g.thrown THEN g ELSE [g EXCEPT !.tens[t].source = o]
getRank(g, t) == Len(g.tens[t].shape)
setShape(g, t, shape) == [g EXCEPT !.tens[t].shape = shape]

\* TensorObj::getSource: source.lock(), nullptr when the operator is gone
getSource(g, t) ==
    IF g.tens[t].source # None /\ Alive(g, g.tens[t].source) THEN g.tens[t].source ELSE None

(* OperatorObj *)
addPredecessors(g, o, p) ==
    IF g.thrown THEN g ELSE [g EXCEPT !.oper[o].predecessors = Append(@, p)]
addSuccessors(g, o, s) ==
    IF g.thrown THEN g ELSE [g EXCEPT !.oper[o].successors = Append(@, s)]
removePredecessors(g, o, p) ==
    IF g.thrown THEN g ELSE [g EXCEPT !.oper[o].predecessors = EraseAll(@, p)]
removeSuccessors(g, o, s) ==
    IF g.thrown THEN g ELSE [g EXCEPT !.oper[o].successors = EraseAll(@, s)]
replaceInput(g, o, t1, t2) ==
    IF g.thrown THEN g
    ELSE [g EXCEPT !.oper[o].inputs = [i \in 1..Len(@) |-> IF @[i] = t1 THEN t2 ELSE @[i]]]

(* GraphObj::removeOperator, GraphObj::removeTensor *)
removeOperator(g, o) == IF g.thrown THEN g ELSE [g EXCEPT !.ops = EraseFirst(@, o)]
removeTensor(g, t) == IF g.thrown THEN g ELSE [g EXCEPT !.tensors = EraseFirst(@, t)]

---------------------------------------------------------------------------
(* GraphObj::addOperatorAndConnect *)

\* one step of the loop over op->getInputs()
ConnectInput(g, op, input) ==
    LET g1 == addTarget(g, input, op)
        pred == getSource(g1, input)
    IN IF pred # None
       THEN addPredecessors(addSuccessors(g1, pred, op), op, pred)
       ELSE g1

RECURSIVE ConnectInputs(_, _, _)
ConnectInputs(g, op, i) ==
    IF i > Len(g.oper[op].inputs) THEN g
    ELSE ConnectInputs(ConnectInput(g, op, g.oper[op].inputs[i]), op, i + 1)

\* the loop over output->getTargets() (a copy taken when the loop starts)
RECURSIVE LinkSuccs(_, _, _, _)
LinkSuccs(g, op, succs, j) ==
    IF j > Len(succs) THEN g
    ELSE LinkSuccs(addSuccessors(addPredecessors(g, succs[j], op), op, succs[j]), op, succs, j + 1)

\* for (auto &succ : output->getTargets()) ...: getTargets throws on an expired target
LinkTargets(g, op, output) ==
    IF g.thrown THEN g
    ELSE IF Expired(g, g.tens[output].targets) THEN Throw(g)
    ELSE LinkSuccs(g, op, g.tens[output].targets, 1)

\* one step of the loop over op->getOutputs()
ConnectOutput(g, op, output) == LinkTargets(setSource(g, output, op), op, output)

RECURSIVE ConnectOutputs(_, _, _)
ConnectOutputs(g, op, i) ==
    IF i > Len(g.oper[op].outputs) THEN g
    ELSE ConnectOutputs(ConnectOutput(g, op, g.oper[op].outputs[i]), op, i + 1)

addOperatorAndConnect(g, op) ==
    LET g1 == [g EXCEPT !.sorted = FALSE, !.ops = Append(@, op)]
    IN ConnectOutputs(ConnectInputs(g1, op, 1), op, 1)

---------------------------------------------------------------------------
(* GraphObj::topo_sort *)

\* the input of op is ready: it has no source, or its source is already emitted
InputReady(g, flags, input) ==
    LET src == getSource(g, input) IN src = None \/ src \in flags

\* one scan of ops (the for loop inside the while loop)
RECURSIVE TopoPass(_, _, _, _, _)
TopoPass(g, i, srt, flags, modified) ==
    IF i > Len(g.ops) THEN [srt |-> srt, flags |-> flags, modified |-> modified]
    ELSE LET op == g.ops[i]
             inputs == g.oper[op].inputs
         IN IF op \notin flags /\ \A k \in 1..Len(inputs) : InputReady(g, flags, inputs[k])
            THEN TopoPass(g, i + 1, Append(srt, op), flags \cup {op}, TRUE)
            ELSE TopoPass(g, i + 1, srt, flags, modified)

\* the while loop: ok is FALSE when a scan moved nothing
RECURSIVE TopoLoop(_, _, _)

\* the end of one iteration of the while loop, r being the result of its scan
TopoAfterPass(g, r) ==
    IF ~r.modified THEN [ok |-> FALSE, srt |-> r.srt]
    ELSE TopoLoop(g, r.srt, r.flags)

TopoLoop(g, srt, flags) ==
    IF Len(srt) >= Len(g.ops) THEN [ok |-> TRUE, srt |-> srt]
    ELSE TopoAfterPass(g, TopoPass(g, 1, srt, flags, FALSE))

\* the end of topo_sort, r being the result of the while loop: ops is replaced
\* and the flag set only when every operator was emitted
TopoStore(g, r) ==
    IF r.ok
    THEN [g |-> [g EXCEPT !.ops = r.srt, !.sorted = TRUE], ret |-> TRUE]
    ELSE [g |-> g, ret |-> FALSE]

\* the graph after the call and the value returned
topo_sort(g) ==
    IF g.sorted THEN [g |-> g, ret |-> TRUE]
    ELSE TopoStore(g, TopoLoop(g, <<>>, {}))

---------------------------------------------------------------------------
(* Shape inference of the operator kinds *)

\* the value of an inference that failed its assertion
BadShape == <<-1>>

Max(a, b) == IF a >= b THEN a ELSE b

\* dimension i (counted from the right, from 0) of a shape padded on the left with 1s
DimFromRight(S, i) == IF i < Len(S) THEN S[Len(S) - i] ELSE 1

\* infer_broadcast taking the larger dimension of every pair
infer_broadcast_Max(A, B) ==
    LET maxRank == Max(Len(A), Len(B))
    IN IF \A i \in 0..(maxRank - 1) :
             \/ DimFromRight(A, i) = DimFromRight(B, i)
             \/ DimFromRight(A, i) = 1
             \/ DimFromRight(B, i) = 1
       THEN [k \in 1..maxRank |->
                Max(DimFromRight(A, maxRank - k), DimFromRight(B, maxRank - k))]
       ELSE BadShape

\* infer_broadcast: the broadcast shape, or BadShape when IT_ASSERT(false) is reached
infer_broadcast(A, B) ==
    LET maxRank == Max(Len(A), Len(B))
        ok(i) == LET dimA == DimFromRight(A, i)
                     dimB == DimFromRight(B, i)
                 IN dimA = dimB \/ dimA = 1 \/ dimB = 1
        dim(i) == LET dimA == DimFromRight(A, i)
                      dimB == DimFromRight(B, i)
                  IN IF dimA = dimB THEN dimA ELSE IF dimA = 1 THEN dimB ELSE dimA
    IN IF \A i \in 0..(maxRank - 1) : ok(i)
       THEN [k \in 1..maxRank |-> dim(maxRank - k)]
       ELSE BadShape

\* inferShape reading the rows and columns of A as if transA were never set
MatmulInferShape_IgnoreTransA(shapeA, shapeB, transA, transB) ==
    IF ~(Len(shapeA) >= 2 /\ Len(shapeB) >= 2) THEN BadShape
    ELSE LET rankA == Len(shapeA)
             rankB == Len(shapeB)
             dimB_k == IF transB THEN shapeB[rankB] ELSE shapeB[rankB - 1]
             dimB_n == IF transB THEN shapeB[rankB - 1] ELSE shapeB[rankB]
             batchResult == infer_broadcast(SubSeq(shapeA, 1, rankA - 2),
                                            SubSeq(shapeB, 1, rankB - 2))
         IN IF shapeA[rankA] # dimB_k \/ batchResult = BadShape THEN BadShape
            ELSE batchResult \o <<shapeA[rankA - 1], dimB_n>>

\* MatmulObj::inferShape: the output shape, or BadShape when an assertion fails
MatmulInferShape(shapeA, shapeB, transA, transB) ==
    IF ~(Len(shapeA) >= 2 /\ Len(shapeB) >= 2) THEN BadShape
    ELSE LET rankA == Len(shapeA)
             rankB == Len(shapeB)
             dimA_m == IF transA THEN shapeA[rankA] ELSE shapeA[rankA - 1]
             dimA_k == IF transA THEN shapeA[rankA - 1] ELSE shapeA[rankA]
             dimB_k == IF transB THEN shapeB[rankB] ELSE shapeB[rankB - 1]
             dimB_n == IF transB THEN shapeB[rankB - 1] ELSE shapeB[rankB]
             batchA == SubSeq(shapeA, 1, rankA - 2)
             batchB == SubSeq(shapeB, 1, rankB - 2)
             batchResult == infer_broadcast(batchA, batchB)
         IN IF dimA_k # dimB_k \/ batchResult = BadShape THEN BadShape
            ELSE batchResult \o <<dimA_m, dimB_n>>

\* TransposeObj::inferShape: output dimension i is input dimension permute[i]
TransposeInferShape(shape, permute) ==
    IF Len(permute) # Len(shape) \/ Range(permute) # 0..(Len(shape) - 1) THEN BadShape
    ELSE [i \in 1..Len(shape) |-> shape[permute[i] + 1]]

\* OperatorObj::checkValid(nullptr): the inferred shape is the shape of the given output
MatmulValid(g, A, B, C, transA, transB) ==
    LET s == MatmulInferShape(g.tens[A].shape, g.tens[B].shape, transA, transB)
    IN s # BadShape /\ s = g.tens[C].shape

TransposeValid(g, x, y, permute) ==
    LET s == TransposeInferShape(g.tens[x].shape, permute)
    IN s # BadShape /\ s = g.tens[y].shape

---------------------------------------------------------------------------
(* The optimizer's helpers *)

\* GraphObj::isInversePermutation: composed[i] = perm2[perm1[i]] is the identity
isInversePermutation(perm1, perm2) ==
    IF Len(perm1) # Len(perm2) THEN FALSE
    ELSE \A i \in 1..Len(perm1) : perm2[perm1[i] + 1] = i - 1

\* GraphObj::isLastTwoDimTranspose
isLastTwoDimTranspose(perm, rank) ==
    IF rank < 2 THEN FALSE
    ELSE /\ \A i \in 0..(rank - 3) : perm[i + 1] = i
         /\ perm[rank - 1] = rank - 1
         /\ perm[rank] = rank - 2

\* the loop "for (auto &o : list) o->removeSuccessors(op)" over a copy of the list
RECURSIVE DropFromSuccs(_, _, _, _)
DropFromSuccs(g, list, op, j) ==
    IF j > Len(list) THEN g
    ELSE DropFromSuccs(removeSuccessors(g, list[j], op), list, op, j + 1)

RECURSIVE DropFromPreds(_, _, _, _)
DropFromPreds(g, list, op, j) ==
    IF j > Len(list) THEN g
    ELSE DropFromPreds(removePredecessors(g, list[j], op), list, op, j + 1)

\* the first loop of removeOperatorfromGraph, over op->getPredecessors()
DropFromAllSuccs(g, op) ==
    IF g.thrown THEN g
    ELSE IF Expired(g, g.oper[op].predecessors) THEN Throw(g)
    ELSE DropFromSuccs(g, g.oper[op].predecessors, op, 1)

\* the second loop of removeOperatorfromGraph, over the successors op has by then
DropFromAllPreds(g, op) ==
    IF g.thrown THEN g
    ELSE IF Expired(g, g.oper[op].successors) THEN Throw(g)
    ELSE DropFromPreds(g, g.oper[op].successors, op, 1)

\* GraphObj::removeOperatorfromGraph
removeOperatorfromGraph(g, op) ==
    removeOperator(DropFromAllPreds(DropFromAllSuccs(g, op), op), op)

\* first loop of reconnectTensors: from->removeTarget(target) for a copy of from's targets
RECURSIVE DropTargets(_, _, _, _)
DropTargets(g, from, list, j) ==
    IF j > Len(list) THEN g
    ELSE DropTargets(removeTarget(g, from, list[j]), from, list, j + 1)

\* second loop of reconnectTensors, over the copy of to's targets
RECURSIVE MoveTargets(_, _, _, _, _)
MoveTargets(g, from, to, list, j) ==
    IF j > Len(list) THEN g
    ELSE LET g1 == replaceInput(g, list[j], to, from)
             g2 == addTarget(g1, from, list[j])
             g3 == removeTarget(g2, to, list[j])
         IN MoveTargets(g3, from, to, list, j + 1)

\* reconnectTensors without its second loop: the consumers of "to" are left alone
reconnectTensors_NoRewire(g, from, to) ==
    IF g.thrown THEN g
    ELSE IF Expired(g, g.tens[to].targets) \/ Expired(g, g.tens[from].targets) THEN Throw(g)
    ELSE DropTargets(g, from, g.tens[from].targets, 1)

\* GraphObj::reconnectTensors: both getTargets calls come before any change
reconnectTensors(g, from, to) ==
    IF g.thrown THEN g
    ELSE IF Expired(g, g.tens[to].targets) \/ Expired(g, g.tens[from].targets) THEN Throw(g)
    ELSE MoveTargets(DropTargets(g, from, g.tens[from].targets, 1),
                     from, to, g.tens[to].targets, 1)

\* first loop of replaceOperator, over oldOp's inputs
RECURSIVE ReplaceInInputs(_, _, _, _)
ReplaceInInputs(g, oldOp, newOp, i) ==
    IF i > Len(g.oper[oldOp].inputs) THEN g
    ELSE LET input == g.oper[oldOp].inputs[i]
             g1 == addTarget(removeTarget(g, input, oldOp), input, newOp)
             source == getSource(g1, input)
             g2 == IF source # None
                   THEN addPredecessors(addSuccessors(g1, source, newOp), newOp, source)
                   ELSE g1
         IN ReplaceInInputs(g2, oldOp, newOp, i + 1)

\* second loop of replaceOperator, over oldOp's outputs
RECURSIVE ReplaceInOutputs(_, _, _, _)
ReplaceInOutputs(g, oldOp, newOp, i) ==
    IF i > Len(g.oper[oldOp].outputs) THEN g
    ELSE ReplaceInOutputs(
             LinkTargets(setSource(g, g.oper[oldOp].outputs[i], newOp),
                         newOp, g.oper[oldOp].outputs[i]),
             oldOp, newOp, i + 1)

\* replaceOperator without its loop over the outputs: they keep oldOp as source
replaceOperator_InputsOnly(g, oldOp, newOp) ==
    LET k == IndexOf(g.ops, oldOp)
        g1 == IF k # 0 /\ ~g.thrown THEN [g EXCEPT !.ops[k] = newOp] ELSE g
    IN ReplaceInInputs(g1, oldOp, newOp, 1)

\* GraphObj::replaceOperator
replaceOperator(g, oldOp, newOp) ==
    LET k == IndexOf(g.ops, oldOp)
        g1 == IF k # 0 /\ ~g.thrown THEN [g EXCEPT !.ops[k] = newOp] ELSE g
    IN ReplaceInOutputs(ReplaceInInputs(g1, oldOp, newOp, 1), oldOp, newOp, 1)

---------------------------------------------------------------------------
(* GraphObj::removeRedundantTranspose *)

\* output->getTargets() of the Transpose ops[i] throws: a target of its output is gone
TargetsGone(g, i) ==
    /\ g.oper[g.ops[i]].type = "Transpose"
    /\ Expired(g, g.tens[g.oper[g.ops[i]].outputs[1]].targets)

\* ops[i] is a Transpose whose output has one target, a Transpose undoing it
RedundantAt(g, i) ==
    LET op == g.ops[i]
        output == g.oper[op].outputs[1]
        targets == g.tens[output].targets
    IN /\ g.oper[op].type = "Transpose"
       /\ Len(targets) = 1
       /\ g.oper[targets[1]].type = "Transpose"
       /\ isInversePermutation(g.oper[op].permute, g.oper[targets[1]].permute)

\* the body of the innermost if: splice the pair out; op and nextOp are local
\* variables of the iteration
SpliceOut(g, op) ==
    LET output == g.oper[op].outputs[1]
        nextOp == g.tens[output].targets[1]
        input == g.oper[op].inputs[1]
        finalOutput == g.oper[nextOp].outputs[1]
        g1 == reconnectTensors(Pin(g, {op, nextOp}), input, finalOutput)
        g2 == removeOperatorfromGraph(g1, op)
        g3 == removeOperatorfromGraph(g2, nextOp)
        g4 == removeTensor(g3, output)
    IN Unpin(removeTensor(g4, finalOutput))

\* the index loop, restarted from the first operator after every change; err is
\* TRUE when std::bad_weak_ptr left the loop
RECURSIVE ScanTransposes(_, _, _)
ScanTransposes(g, i, changed) ==
    IF g.thrown THEN [g |-> g, changed |-> changed, err |-> TRUE]
    ELSE IF i > Len(g.ops) THEN [g |-> g, changed |-> changed, err |-> FALSE]
    ELSE IF TargetsGone(g, i) THEN [g |-> Throw(g), changed |-> changed, err |-> TRUE]
    ELSE IF RedundantAt(g, i) THEN ScanTransposes(SpliceOut(g, g.ops[i]), 1, TRUE)
    ELSE ScanTransposes(g, i + 1, changed)

\* the end of the pass, r being the result of the loop: topo_sort, return changed
SortAfterScan(r) ==
    IF r.err THEN r
    ELSE [g |-> topo_sort(r.g).g, changed |-> r.changed, err |-> FALSE]

\* GraphObj::removeRedundantTranspose
removeRedundantTranspose(g) == SortAfterScan(ScanTransposes(g, 1, FALSE))

---------------------------------------------------------------------------
(* GraphObj::fuseTransposeIntoMatmul *)

\* tensor t is produced by a Transpose that swaps only the last two dimensions
FromLastTwoDimTranspose(g, t) ==
    LET source == getSource(g, t)
    IN /\ source # None
       /\ g.oper[source].type = "Transpose"
       /\ isLastTwoDimTranspose(g.oper[source].permute, getRank(g, t))

\* make_ref<MatmulObj>(nullptr, A, B, C, transA, transB): the operator gets the next
\* guid; its only owner is the local variable newMatmul
MakeMatmul(g, A, B, C, transA, transB) ==
    [g EXCEPT !.oper = Append(@, NewOperator("MatMul", <<A, B>>, <<C>>, transA, transB, <<>>))]

\* the end of both branches: the Transpose and its output go when the replaced
\* MatMul was the only target of that output
DropIfUnshared(g, tensor, source) ==
    IF g.thrown THEN g
    ELSE IF Expired(g, g.tens[tensor].targets) THEN Throw(g)
    ELSE IF Len(g.tens[tensor].targets) = 1
    THEN removeTensor(removeOperatorfromGraph(g, source), tensor)
    ELSE g

\* the end of a branch, g being the graph it leaves: the local variables of the
\* iteration are released; err is TRUE when an exception left the branch
FuseDone(g) == [g |-> Unpin(g), err |-> g.thrown]

\* the branch that fuses the Transpose producing input A
FuseA(g, matmulOp) ==
    LET inputA == g.oper[matmulOp].inputs[1]
        inputB == g.oper[matmulOp].inputs[2]
        output == g.oper[matmulOp].outputs[1]
        sourceA == getSource(g, inputA)
        A0 == g.oper[sourceA].inputs[1]
        transA == ~g.oper[matmulOp].transA
        transB == g.oper[matmulOp].transB
        newMatmul == Len(g.oper) + 1
    IN IF ~MatmulValid(g, A0, inputB, output, transA, transB)
       THEN [g |-> g, err |-> TRUE]
       ELSE LET g1 == Pin(MakeMatmul(g, A0, inputB, output, transA, transB),
                          {matmulOp, sourceA, newMatmul})
                g2 == replaceOperator(g1, matmulOp, newMatmul)
            IN FuseDone(DropIfUnshared(g2, inputA, sourceA))

\* the branch that fuses the Transpose producing input B
FuseB(g, matmulOp) ==
    LET inputA == g.oper[matmulOp].inputs[1]
        inputB == g.oper[matmulOp].inputs[2]
        output == g.oper[matmulOp].outputs[1]
        sourceB == getSource(g, inputB)
        inputtransposeB == g.oper[sourceB].inputs[1]
        transA == g.oper[matmulOp].transA
        transB == ~g.oper[matmulOp].transB
        newMatmul == Len(g.oper) + 1
        g0 == removeTarget(g, inputtransposeB, sourceB)
    IN IF ~MatmulValid(g0, inputA, inputtransposeB, output, transA, transB)
       THEN [g |-> g0, err |-> TRUE]
       ELSE LET g1 == Pin(MakeMatmul(g0, inputA, inputtransposeB, output, transA, transB),
                          {matmulOp, sourceB, newMatmul})
                g2 == addTarget(g1, inputtransposeB, newMatmul)
                g3 == replaceOperator(g2, matmulOp, newMatmul)
            IN FuseDone(DropIfUnshared(g3, inputB, sourceB))

\* the index loop; err is TRUE when an exception left it: a MatmulObj constructor
\* failed its assertion, or a weak reference was expired
RECURSIVE ScanMatmuls(_, _, _)

\* the loop after a branch that goes on without setting changed
ScanAfterFuse_NoFlag(r, i, changed) ==
    IF r.err THEN [g |-> r.g, changed |-> changed, err |-> TRUE]
    ELSE ScanMatmuls(r.g, i + 1, changed)

\* the loop after a branch, r being the result of the branch: changed = true, ++i
ScanAfterFuse(r, i, changed) ==
    IF r.err THEN [g |-> r.g, changed |-> changed, err |-> TRUE]
    ELSE ScanMatmuls(r.g, i + 1, TRUE)

ScanMatmuls(g, i, changed) ==
    IF i > Len(g.ops) THEN [g |-> g, changed |-> changed, err |-> FALSE]
    ELSE IF g.oper[g.ops[i]].type # "MatMul" THEN ScanMatmuls(g, i + 1, changed)
    ELSE IF FromLastTwoDimTranspose(g, g.oper[g.ops[i]].inputs[1])
    THEN ScanAfterFuse(FuseA(g, g.ops[i]), i, changed)
    ELSE IF FromLastTwoDimTranspose(g, g.oper[g.ops[i]].inputs[2])
    THEN ScanAfterFuse(FuseB(g, g.ops[i]), i, changed)
    ELSE ScanMatmuls(g, i + 1, changed)

\* GraphObj::fuseTransposeIntoMatmul
fuseTransposeIntoMatmul(g) == ScanMatmuls(g, 1, FALSE)

---------------------------------------------------------------------------
(* GraphObj::optimize *)

MaxIters == 12  \* iterations of the optimize loop after which the call is taken not to return

\* the while loop; iters counts the iterations started, changes those that reported a change
RECURSIVE OptimizeLoop(_, _, _)

\* the end of one iteration, r1 and r2 being the results of its two passes
OptimizeAfterPasses(r1, r2, iters, changes) ==
    IF r2.err
    THEN [g |-> r2.g, iters |-> iters + 1, changes |-> changes, err |-> TRUE, hung |-> FALSE]
    ELSE IF r1.changed \/ r2.changed THEN OptimizeLoop(r2.g, iters + 1, changes + 1)
    ELSE [g |-> r2.g, iters |-> iters + 1, changes |-> changes, err |-> FALSE, hung |-> FALSE]

\* the second pass of one iteration, r1 being the result of the first
OptimizeAfterRemove(r1, iters, changes) ==
    IF r1.err
    THEN [g |-> r1.g, iters |-> iters + 1, changes |-> changes, err |-> TRUE, hung |-> FALSE]
    ELSE OptimizeAfterPasses(r1, fuseTransposeIntoMatmul(r1.g), iters, changes)

\* an iteration; a loop that has gone round MaxIters times is one that goes round
\* for ever (a MatMul fused again and again along a cycle of Transposes): hung
OptimizeLoop(g, iters, changes) ==
    IF iters >= MaxIters
    THEN [g |-> g, iters |-> iters, changes |-> changes, err |-> FALSE, hung |-> TRUE]
    ELSE OptimizeAfterRemove(removeRedundantTranspose(g), iters, changes)

\* the statement after the loop, r being the result of the loop: sorted = false
OptimizeFinish(r) ==
    IF r.err \/ r.hung THEN r
    ELSE [r EXCEPT !.g.sorted = FALSE]

\* GraphObj::optimize
optimize(g) == OptimizeFinish(OptimizeLoop(g, 0, 0))

---------------------------------------------------------------------------
(* GraphObj::shape_infer *)

\* op->inferShape(): the inference of the operator's kind on its inputs' current shapes
InferShapeOf(g, op) ==
    IF g.oper[op].type = "Transpose"
    THEN TransposeInferShape(g.tens[g.oper[op].inputs[1]].shape, g.oper[op].permute)
    ELSE MatmulInferShape(g.tens[g.oper[op].inputs[1]].shape,
                          g.tens[g.oper[op].inputs[2]].shape,
                          g.oper[op].transA, g.oper[op].transB)

\* the inner loop for the one output of the operator: the shape is stored only when
\* it differs, in the tensor getTensor(fuid) finds in the tensor list; when the list
\* does not hold the tensor getTensor returns nullptr, tensor->setShape is a member
\* call on a null pointer and the process is killed in it (killed): the call neither
\* returns nor throws
StoreShape(g, output, newShape) ==
    IF newShape = g.tens[output].shape THEN [g |-> g, ok |-> TRUE, killed |-> FALSE]
    ELSE IF InSeq(g.tensors, output)
    THEN [g |-> setShape(g, output, newShape), ok |-> TRUE, killed |-> FALSE]
    ELSE [g |-> g, ok |-> FALSE, killed |-> TRUE]

\* the loop over ops in their current order; ok is FALSE when an assertion failed
\* or the process was killed
RECURSIVE InferLoop(_, _)

\* the loop after the shape of ops[i] was stored with result r
InferAfterStore(r, i) == IF r.ok THEN InferLoop(r.g, i + 1) ELSE r

InferLoop(g, i) ==
    IF i > Len(g.ops) THEN [g |-> g, ok |-> TRUE, killed |-> FALSE]
    ELSE IF InferShapeOf(g, g.ops[i]) = BadShape
    THEN [g |-> g, ok |-> FALSE, killed |-> FALSE]
    ELSE InferAfterStore(
             StoreShape(g, g.oper[g.ops[i]].outputs[1], InferShapeOf(g, g.ops[i])), i)

\* GraphObj::shape_infer
shape_infer(g) == InferLoop(g, 1)

---------------------------------------------------------------------------
(* GraphObj::checkValid: TRUE when every assertion passes and no read of a
   list of weak references throws *)

checkValid(g) ==
    /\ \A i \in 1..Len(g.tensors) :
          LET tensor == g.tens[g.tensors[i]]
              source == getSource(g, g.tensors[i])
          IN /\ ~Expired(g, tensor.targets)
             /\ ~(Len(tensor.targets) = 0 /\ source = None)
             /\ \A k \in 1..Len(tensor.targets) : InSeq(g.ops, tensor.targets[k])
             /\ ~(source # None /\ ~InSeq(g.ops, source))
    /\ \A i \in 1..Len(g.ops) :
          LET op == g.oper[g.ops[i]]
          IN /\ ~Expired(g, op.predecessors)
             /\ ~Expired(g, op.successors)
             /\ \A k \in 1..Len(op.inputs) : InSeq(g.tensors, op.inputs[k])
             /\ \A k \in 1..Len(op.outputs) : InSeq(g.tensors, op.outputs[k])
             /\ \A k \in 1..Len(op.predecessors) : InSeq(g.ops, op.predecessors[k])
             /\ \A k \in 1..Len(op.successors) : InSeq(g.ops, op.successors[k])
    /\ \A i, j \in 1..Len(g.tensors) : i # j => g.tensors[i] # g.tensors[j]

---------------------------------------------------------------------------
(* Allocator *)

Alignment == 8      \* sizeof(uint64_t)

\* the allocator as a value
Arena ==
    [used |-> used, peak |-> peak, freeBlocks |-> freeBlocks, ptr |-> ptr, runtime |-> runtime]

\* a Runtime that has received no call
NoCalls == [allocs |-> <<>>, deallocs |-> 0]

\* Allocator::Allocator
NewArena == [used |-> 0, peak |-> 0, freeBlocks |-> <<>>, ptr |-> None, runtime |-> NoCalls]

\* the size rounded down to a multiple of the alignment
getAlignedSize_Floor(size) == (size \div Alignment) * Alignment

\* the rounding done in signed arithmetic: (0 - 1) / 8 is 0, so 0 rounds to 8
getAlignedSize_Signed(size) ==
    IF size = 0 THEN Alignment ELSE (((size - 1) \div Alignment) + 1) * Alignment

\* Allocator::getAlignedSize.  size is a size_t: for size = 0 the subtraction wraps to
\* 2^64 - 1, the quotient plus one is 2^61 and the product wraps to 0.
getAlignedSize(size) ==
    IF size = 0 THEN 0 ELSE (((size - 1) \div Alignment) + 1) * Alignment

\* std::map helpers: erase a key, set a key
MapErase(m, k) == [x \in (DOMAIN m) \ {k} |-> m[x]]
MapPut(m, k, v) == [x \in (DOMAIN m) \cup {k} |-> IF x = k THEN v ELSE m[x]]
MaxKey(m) == CHOOSE k \in DOMAIN m : \A x \in DOMAIN m : x <= k
MinKey(S) == CHOOSE k \in S : \A x \in S : k <= x

\* take the whole of free block addr for a request of size bytes
Carve_Whole(a, addr, size) ==
    [a EXCEPT !.freeBlocks = MapErase(a.freeBlocks, addr), !.used = @ + size]

\* carve size from the low end of free block addr
Carve(a, addr, size) ==
    LET blockSize == a.freeBlocks[addr]
        erased == MapErase(a.freeBlocks, addr)
        rest == IF blockSize > size THEN MapPut(erased, addr + size, blockSize - size) ELSE erased
    IN [a EXCEPT !.freeBlocks = rest, !.used = @ + size]

\* Allocator::alloc, after the assertion: the arena after the call and the offset returned
alloc(a, rawSize) ==
    LET size == getAlignedSize(rawSize)
        fb == a.freeBlocks
        last_ == MaxKey(fb)
        fits == { k \in DOMAIN fb : fb[k] >= size }
    IN IF DOMAIN fb # {} /\ last_ + fb[last_] = a.peak
       THEN IF fb[last_] >= size
            THEN [a |-> Carve(a, last_, size), addr |-> last_]
            ELSE [a |-> [a EXCEPT !.freeBlocks = MapErase(fb, last_),
                                  !.peak = @ + (size - fb[last_]),
                                  !.used = @ + size],
                  addr |-> last_]
       ELSE IF fits # {}
       THEN [a |-> Carve(a, MinKey(fits), size), addr |-> MinKey(fits)]
       ELSE [a |-> [a EXCEPT !.peak = @ + size, !.used = @ + size], addr |-> a.peak]

\* Allocator::alloc with its assertion: ok is FALSE when IT_ASSERT(ptr == nullptr) throws
AllocatorAlloc(a, rawSize) ==
    IF a.ptr # None THEN [a |-> a, addr |-> None, ok |-> FALSE]
    ELSE [a |-> alloc(a, rawSize).a, addr |-> alloc(a, rawSize).addr, ok |-> TRUE]

\* std::next(it) and std::prev(it) in the map: the neighbouring keys of addr, if any
KeysAfter(m, addr) == { k \in DOMAIN m : k > addr }
KeysBefore(m, addr) == { k \in DOMAIN m : k < addr }
MaxOf(S) == CHOOSE k \in S : \A x \in S : x <= k

\* "Merge with next block": fb already holds addr -> size
MergeNext(fb, addr) ==
    IF KeysAfter(fb, addr) # {} /\ addr + fb[addr] = MinKey(KeysAfter(fb, addr))
    THEN MapPut(MapErase(fb, MinKey(KeysAfter(fb, addr))), addr,
                fb[addr] + fb[MinKey(KeysAfter(fb, addr))])
    ELSE fb

\* "Merge with previous block"
MergePrev(fb, addr) ==
    IF KeysBefore(fb, addr) # {}
       /\ MaxOf(KeysBefore(fb, addr)) + fb[MaxOf(KeysBefore(fb, addr))] = addr
    THEN MapErase(MapPut(fb, MaxOf(KeysBefore(fb, addr)),
                         fb[MaxOf(KeysBefore(fb, addr))] + fb[addr]), addr)
    ELSE fb

\* Allocator::free, after the assertion.  used is a size_t; every call made here
\* releases a range that is counted in used, so the subtraction does not wrap.
free(a, addr, rawSize) ==
    [a EXCEPT !.used = @ - getAlignedSize(rawSize),
              !.freeBlocks = MergePrev(MergeNext(MapPut(@, addr, getAlignedSize(rawSize)), addr),
                                       addr)]

\* Allocator::free without its assertion
AllocatorFree_Unchecked(a, addr, rawSize) == [a |-> free(a, addr, rawSize), ok |-> TRUE]

\* Allocator::free with its assertion
AllocatorFree(a, addr, rawSize) ==
    IF a.ptr # None THEN [a |-> a, ok |-> FALSE]
    ELSE [a |-> free(a, addr, rawSize), ok |-> TRUE]

\* Runtime::alloc(bytes) -> pointer, for a runtime that fails its next nulls
\* requests: a failed request is answered with nullptr
RuntimeAlloc(nulls) == IF nulls > 0 THEN None ELSE BasePtr

\* the requests the runtime has answered with nullptr: all of them while no
\* pointer is cached, all but the last one afterwards
NullAnswers(a) == Len(a.runtime.allocs) - (IF a.ptr = None THEN 0 ELSE 1)

\* the numbers of requests the runtime may fail from now on
NullsLeft(a) == 0..(MaxNulls - NullAnswers(a))

\* Allocator::getPtr: while no pointer is cached the runtime is asked for peak
\* bytes, and its answer is stored as it comes
getPtr(a, answer) ==
    IF a.ptr = None
    THEN [a EXCEPT !.ptr = answer, !.runtime.allocs = Append(@, a.peak)]
    ELSE a

\* Allocator::~Allocator
destructor(a) ==
    IF a.ptr # None THEN [a EXCEPT !.runtime.deallocs = @ + 1] ELSE a

---------------------------------------------------------------------------
(* GraphObj::dataMalloc *)

RECURSIVE Product(_, _)
Product(shape, i) == IF i > Len(shape) THEN 1 ELSE shape[i] * Product(shape, i + 1)

\* TensorObj::getBytes
getBytes(g, t) == Product(g.tens[t].shape, 1) * ElemBytes

\* the first loop: one alloc per tensor of the list, in list order
RECURSIVE AllocAll(_, _, _, _)
AllocAll(g, a, i, offsets) ==
    IF i > Len(g.tensors) THEN [a |-> a, offsets |-> offsets]
    ELSE LET r == alloc(a, getBytes(g, g.tensors[i]))
         IN AllocAll(g, r.a, i + 1, Append(offsets, r.addr))

\* the second loop: bind tensor i to basePtr + offsets[i], basePtr being what
\* getPtr returns in this iteration; bound collects <<offset, basePtr>>, and
\* nulls is the number of requests the runtime still fails
RECURSIVE BindAll(_, _, _, _, _, _)
BindAll(g, a, i, offsets, nulls, bound) ==
    IF i > Len(g.tensors) THEN [g |-> g, a |-> a, bound |-> bound]
    ELSE LET a1 == getPtr(a, RuntimeAlloc(nulls))
             left == IF a.ptr = None /\ nulls > 0 THEN nulls - 1 ELSE nulls
             g1 == [g EXCEPT !.tens[g.tensors[i]].data = a1.ptr + offsets[i]]
         IN BindAll(g1, a1, i + 1, offsets, left, Append(bound, <<offsets[i], a1.ptr>>))

\* the graph and the arena after the call; ok is FALSE when an assertion failed
Bound(b) == [g |-> b.g, a |-> b.a, ok |-> TRUE, bound |-> b.bound]
NotBound(g, a) == [g |-> g, a |-> a, ok |-> FALSE, bound |-> <<>>]

\* the two loops, g being the sorted graph and r the result of the first loop
BindAllocated(g, r, nulls) == Bound(BindAll(g, r.a, 1, r.offsets, nulls, <<>>))

\* dataMalloc after its topo_sort returned ts
MallocSorted(ts, a, nulls) ==
    IF ~ts.ret THEN NotBound(ts.g, a)
    ELSE IF Len(ts.g.tensors) > 0 /\ a.ptr # None THEN NotBound(ts.g, a)
    ELSE BindAllocated(ts.g, AllocAll(ts.g, a, 1, <<>>), nulls)

\* dataMalloc with a runtime that fails its next nulls requests
dataMalloc(g, a, nulls) == MallocSorted(topo_sort(g), a, nulls)

---------------------------------------------------------------------------
(* The public calls as actions *)

\* the inputs a call is drawn from
Square == <<2, 2>>
Identity2 == <<0, 1>>
Swap2 == <<1, 0>>

Transpose(x, y, permute) == NewOperator("Transpose", <<x>>, <<y>>, FALSE, FALSE, permute)
Matmul(A, B, C, transA, transB) == NewOperator("MatMul", <<A, B>>, <<C>>, transA, transB, <<>>)

\* the operator constructor's IT_ASSERT(checkValid(graph)) with graph = nullptr
CtorValid(g, d) ==
    IF d.type = "Transpose"
    THEN TransposeValid(g, d.inputs[1], d.outputs[1], d.permute)
    ELSE MatmulValid(g, d.inputs[1], d.inputs[2], d.outputs[1], d.transA, d.transB)

NoRet ==
    [ok |-> TRUE, iters |-> 0, changes |-> 0, addr |-> None, hung |-> FALSE,
     killed |-> FALSE]

\* the record of a call that is about to be made
Called(name, ret) ==
    [call |-> name, ret |-> ret, pre |-> Graph, arena |-> Arena, args |-> <<>>, value |-> <<>>]

\* a call can be made: the graph exists, no call is still running and the
\* process was not killed
Running == ~destroyed /\ ~last.ret.hung /\ ~last.ret.killed

SetGraph(g) ==
    /\ tensors' = g.tensors
    /\ ops' = g.ops
    /\ tens' = g.tens
    /\ oper' = g.oper
    /\ sorted' = g.sorted

SetArena(a) ==
    /\ used' = a.used
    /\ peak' = a.peak
    /\ freeBlocks' = a.freeBlocks
    /\ ptr' = a.ptr
    /\ runtime' = a.runtime

\* GraphObj::addTensor(Shape dim, DataType dtype)
addTensor(g, shape) ==
    [g EXCEPT !.tens = Append(@, NewTensor(shape)), !.tensors = Append(@, Len(g.tens) + 1)]

AddTensor(shape) ==
    /\ Running
    /\ Len(tens) < MaxTensors
    /\ SetGraph(addTensor(Graph, shape))
    /\ last' = Called("addTensor", NoRet)
    /\ UNCHANGED <<used, peak, freeBlocks, ptr, runtime, destroyed, caller>>

MaxExtra == 1   \* entries of the tensor list beyond the number of tensors in existence
MaxRefTensors == 3  \* tensors in existence when addTensor(tensor) may still be called

\* GraphObj::addTensor(const Tensor &tensor): the tensor is appended to the list,
\* whether or not the list holds it already; the assertion on the runtime passes,
\* every tensor being of the one runtime
addTensorRef(g, t) == [g EXCEPT !.tensors = Append(@, t)]

\* a tensor the caller made with make_ref<TensorObj>(shape, ...), in no list
makeTensor(g, shape) == [g EXCEPT !.tens = Append(@, NewTensor(shape))]

\* addTensor(tensor) for a tensor t that exists, or for one the caller has just made
\* (t one past the last tensor)
AddTensorRef(t, shape) ==
    /\ Running
    /\ t \in 1..(Len(tens) + 1)
    /\ t <= MaxTensors
    /\ Len(tensors) < Len(tens) + MaxExtra
    /\ SetGraph(addTensorRef(IF t > Len(tens) THEN makeTensor(Graph, shape) ELSE Graph, t))
    /\ last' = [Called("addTensor", NoRet) EXCEPT !.args = <<t>>]
    /\ UNCHANGED <<used, peak, freeBlocks, ptr, runtime, destroyed, caller>>

\* the vectors the caller passes to addTensor(const TensorVec &)
MaxVec == 2
TensorVecs == UNION { [1..n -> 1..MaxTensors] : n \in 0..MaxVec }

\* GraphObj::addTensor(const TensorVec &tensors): addTensor(t) for every t, in order
RECURSIVE addTensors(_, _, _)
addTensors(g, vec, i) ==
    IF i > Len(vec) THEN g ELSE addTensors(addTensorRef(g, vec[i]), vec, i + 1)

AddTensors(vec) ==
    /\ Running
    /\ \A i \in 1..Len(vec) : vec[i] \in 1..Len(tens)
    /\ Len(tensors) + Len(vec) <= Len(tens) + MaxVec
    /\ SetGraph(addTensors(Graph, vec, 1))
    /\ last' = [Called("addTensors", NoRet) EXCEPT !.args = vec]
    /\ UNCHANGED <<used, peak, freeBlocks, ptr, runtime, destroyed, caller>>

\* the Ref of operator op is handed to the caller, who keeps it; nothing is
\* handed over when an exception left the call
Keep(g, op) == IF g.thrown THEN g ELSE [g EXCEPT !.oper[op].held = TRUE]

\* GraphObj::addOpWithOutputs<T>(args...): construct the operator, then connect it
addOpWithOutputs(g, d) ==
    Keep(addOperatorAndConnect([g EXCEPT !.oper = Append(@, d)], Len(g.oper) + 1),
         Len(g.oper) + 1)

\* the state after addOpWithOutputs or addOp left graph g
AddOpTo(name, g) ==
    /\ SetGraph(g)
    /\ last' = Called(name, [NoRet EXCEPT !.ok = ~g.thrown])
    /\ UNCHANGED <<used, peak, freeBlocks, ptr, runtime, destroyed, caller>>

\* addOpWithOutputs on tensors that exist, in the tensor list or not
AddOpWithOutputs(d) ==
    /\ Running
    /\ \A i \in 1..Len(d.inputs) : d.inputs[i] \in 1..Len(tens)
    /\ \A i \in 1..Len(d.outputs) : d.outputs[i] \in 1..Len(tens)
    /\ CtorValid(Graph, d)
    /\ AddOpTo("addOpWithOutputs", addOpWithOutputs(Graph, d))

\* the shape the constructor infers for the output of descriptor d
CtorShape(g, d) ==
    IF d.type = "Transpose"
    THEN TransposeInferShape(g.tens[d.inputs[1]].shape, d.permute)
    ELSE MatmulInferShape(g.tens[d.inputs[1]].shape, g.tens[d.inputs[2]].shape,
                          d.transA, d.transB)

\* GraphObj::addOp<T>(args...) with nullptr for the output: the constructor, given
\* the graph, adds the output tensor with the inferred shape; then the operator is
\* connected
addOp(g, d) ==
    addOpWithOutputs(addTensor(g, CtorShape(g, d)),
                     [d EXCEPT !.outputs = <<Len(g.tens) + 1>>])

\* addOp on inputs that exist; the constructor's assertion fails when no shape
\* can be inferred
AddOp(d) ==
    /\ Running
    /\ \A i \in 1..Len(d.inputs) : d.inputs[i] \in 1..Len(tens)
    /\ Len(tens) < MaxTensors
    /\ CtorShape(Graph, d) # BadShape
    /\ AddOpTo("addOp", addOp(Graph, d))

\* the Ref of operator op, held by the caller, goes out of scope
release(g, op) == [g EXCEPT !.oper[op].held = FALSE]

\* the caller lets go of the Ref that addOpWithOutputs or addOp returned for
\* operator o: the temporary of a call made as a statement, or a variable
\* that is reset or leaves its scope
Release(o) ==
    /\ Running
    /\ o \in 1..Len(oper)
    /\ oper[o].held
    /\ SetGraph(release(Graph, o))
    /\ last' = [Called("release", NoRet) EXCEPT !.pre = release(Graph, o)]
    /\ UNCHANGED <<used, peak, freeBlocks, ptr, runtime, destroyed, caller>>

\* GraphObj::getOperators: the caller copies the Ref of a listed operator out
\* of the list it is handed, and so owns the operator as well
GetOperators(o) ==
    /\ Running
    /\ InSeq(ops, o)
    /\ ~oper[o].held
    /\ SetGraph(Keep(Graph, o))
    /\ last' = [Called("getOperators", NoRet) EXCEPT !.pre = Keep(Graph, o)]
    /\ UNCHANGED <<used, peak, freeBlocks, ptr, runtime, destroyed, caller>>

\* GraphObj::removeOperator(op), called by the user on any operator that exists
RemoveOperator(o) ==
    /\ Running
    /\ o \in 1..Len(oper)
    /\ Alive(Graph, o)
    /\ SetGraph(removeOperator(Graph, o))
    /\ last' = Called("removeOperator", NoRet)
    /\ UNCHANGED <<used, peak, freeBlocks, ptr, runtime, destroyed, caller>>

\* GraphObj::removeTensor(tensor), called by the user on any tensor made so far
RemoveTensor(t) ==
    /\ Running
    /\ t \in 1..Len(tens)
    /\ SetGraph(removeTensor(Graph, t))
    /\ last' = Called("removeTensor", NoRet)
    /\ UNCHANGED <<used, peak, freeBlocks, ptr, runtime, destroyed, caller>>

\* the state after topo_sort returned r
TopoSortTo(r) ==
    /\ SetGraph(r.g)
    /\ last' = Called("topo_sort", [NoRet EXCEPT !.ok = r.ret])
    /\ UNCHANGED <<used, peak, freeBlocks, ptr, runtime, destroyed, caller>>

\* GraphObj::topo_sort
TopoSort == Running /\ TopoSortTo(topo_sort(Graph))

\* the producer relation of the graph has no cycle
Acyclic(g) == TopoLoop(g, <<>>, {}).ok

\* the state after optimize returned r, or was left by an exception, or once
\* its loop is known never to end (hung: the call does not return, and no
\* other call is made)
OptimizeTo(r) ==
    /\ SetGraph(r.g)
    /\ last' = Called("optimize",
                       [NoRet EXCEPT !.ok = ~r.err /\ ~r.hung, !.iters = r.iters,
                                     !.changes = r.changes, !.hung = r.hung])
    /\ UNCHANGED <<used, peak, freeBlocks, ptr, runtime, destroyed, caller>>

\* GraphObj::optimize
Optimize == Running /\ OptimizeTo(optimize(Graph))

\* the state after dataMalloc returned r
DataMallocTo(r) ==
    /\ SetGraph(r.g)
    /\ SetArena(r.a)
    /\ last' = [Called("dataMalloc", [NoRet EXCEPT !.ok = r.ok]) EXCEPT !.value = r.bound]
    /\ UNCHANGED <<destroyed, caller>>

\* GraphObj::dataMalloc
DataMalloc ==
    /\ Running
    /\ \E nulls \in NullsLeft(Arena) : DataMallocTo(dataMalloc(Graph, Arena, nulls))

\* the caller of the allocator has made no call
NoRanges == [live |-> <<>>, allocs |-> 0, frees |-> 0, ordered |-> TRUE, peak0 |-> 0]

\* the caller's record after an alloc(size) that returned r
NoteAlloc(c, r, size) ==
    IF ~r.ok THEN c
    ELSE [c EXCEPT !.live = Append(@, [addr |-> r.addr, size |-> size]),
                   !.allocs = @ + 1,
                   !.ordered = @ /\ c.frees = 0]

\* the caller's record after freeing its i-th live range, peakBefore being the peak then
NoteFree(c, r, i, peakBefore) ==
    IF ~r.ok THEN c
    ELSE [c EXCEPT !.live = SubSeq(@, 1, i - 1) \o SubSeq(@, i + 1, Len(@)),
                   !.frees = @ + 1,
                   !.peak0 = IF c.frees = 0 THEN peakBefore ELSE @]

\* the record of a call of infer_broadcast(A, B) that returned shape r
BroadcastCalled(A, B, r) ==
    [Called("infer_broadcast", [NoRet EXCEPT !.ok = (r # BadShape)])
        EXCEPT !.args = <<A, B>>, !.value = r]

\* infer_broadcast(A, B), a free function: no object changes
InferBroadcast(A, B) ==
    /\ last' = BroadcastCalled(A, B, infer_broadcast(A, B))
    /\ UNCHANGED <<tensors, ops, tens, oper, sorted, used, peak, freeBlocks, ptr,
                   runtime, destroyed, caller>>

\* the state after shape_infer returned r, threw, or was killed
ShapeInferTo(r) ==
    /\ SetGraph(r.g)
    /\ last' = Called("shape_infer", [NoRet EXCEPT !.ok = r.ok, !.killed = r.killed])
    /\ UNCHANGED <<used, peak, freeBlocks, ptr, runtime, destroyed, caller>>

\* GraphObj::shape_infer
ShapeInfer == Running /\ ShapeInferTo(shape_infer(Graph))

\* TensorObj::setShape on a tensor of the graph, called by the user
SetShape(t, shape) ==
    /\ Running
    /\ InSeq(tensors, t)
    /\ tens[t].shape # shape
    /\ SetGraph(setShape(Graph, t, shape))
    /\ last' = Called("setShape", NoRet)
    /\ UNCHANGED <<used, peak, freeBlocks, ptr, runtime, destroyed, caller>>

\* the state after Allocator::alloc(size) returned r
AllocTo(r, size) ==
    /\ SetArena(r.a)
    /\ caller' = NoteAlloc(caller, r, size)
    /\ last' = Called("alloc", [NoRet EXCEPT !.ok = r.ok, !.addr = r.addr])
    /\ UNCHANGED <<tensors, ops, tens, oper, sorted, destroyed>>

\* Allocator::alloc(size)
Alloc(size) ==
    /\ Running
    /\ AllocTo(AllocatorAlloc(Arena, size), size)

\* the state after Allocator::free of the caller's i-th live range returned r
FreeTo(r, i) ==
    /\ SetArena(r.a)
    /\ caller' = NoteFree(caller, r, i, peak)
    /\ last' = Called("free", [NoRet EXCEPT !.ok = r.ok, !.addr = caller.live[i].addr])
    /\ UNCHANGED <<tensors, ops, tens, oper, sorted, destroyed>>

\* Allocator::free(addr, size) of a range alloc returned and that is not yet freed
Free(i) ==
    /\ Running
    /\ i \in 1..Len(caller.live)
    /\ FreeTo(AllocatorFree(Arena, caller.live[i].addr, caller.live[i].size), i)

\* the state after Allocator::getPtr left the arena as a
GetPtrTo(a) ==
    /\ SetArena(a)
    /\ last' = Called("getPtr", [NoRet EXCEPT !.addr = a.ptr])
    /\ UNCHANGED <<tensors, ops, tens, oper, sorted, destroyed, caller>>

\* Allocator::getPtr
GetPtr ==
    /\ Running
    /\ \E nulls \in NullsLeft(Arena) : GetPtrTo(getPtr(Arena, RuntimeAlloc(nulls)))

\* the destruction of the graph and with it of its allocator
Destroy ==
    /\ Running
    /\ destroyed' = TRUE
    /\ SetArena(destructor(Arena))
    /\ last' = Called("~Allocator", NoRet)
    /\ UNCHANGED <<tensors, ops, tens, oper, sorted, caller>>

Init ==
    /\ tensors = <<>>
    /\ ops = <<>>
    /\ tens = <<>>
    /\ oper = <<>>
    /\ sorted = FALSE
    /\ used = 0
    /\ peak = 0
    /\ freeBlocks = <<>>
    /\ ptr = None
    /\ runtime = NoCalls
    /\ destroyed = FALSE
    /\ caller = NoRanges
    /\ last = [call |-> "init", ret |-> NoRet, pre |-> EmptyGraph, arena |-> NewArena,
               args |-> <<>>, value |-> <<>>]

---------------------------------------------------------------------------
(* Specification Spec: graphs of square matrices built from a menu of
   Transpose and MatMul operators, then optimized; cycles included, among
   them a Transpose that reads its own output.  The caller lets go of any of
   the Refs it was handed, at any time, takes the Ref of an operator that
   optimize made, and may list a tensor a second time before the first
   operator is added. *)

\* the wirings offered to addOpWithOutputs: <<input>> -> output
TransposeWirings ==
    { <<1, 2>>, <<2, 3>>, <<5, 1>>, <<1, 3>>, <<3, 5>>, <<4, 5>>, <<2, 2>> }
MatmulWirings == { <<2, 3, 4>>, <<2, 2, 3>> }

OptMenu ==
    { Transpose(w[1], w[2], p) : w \in TransposeWirings, p \in {Identity2, Swap2} }
    \cup { Matmul(w[1], w[2], w[3], f[1], f[2]) : w \in MatmulWirings, f \in BOOLEAN \X BOOLEAN }

MaxMade == 5    \* operators made by optimize calls after which optimize is not called again

\* the tensors the caller may list a second time: the one in the middle of the
\* chains of the menu
Relisted == { 2 }

Next ==
    \/ AddTensor(Square)
    \/ \E t \in Relisted :
          Len(tens) = MaxTensors /\ Len(oper) = 0 /\ AddTensorRef(t, Square)
    \/ \E d \in OptMenu : Len(oper) < MaxOps /\ AddOpWithOutputs(d)
    \/ \E o \in 1..MaxOps : Release(o)
    \/ \E o \in (MaxOps + 1)..(MaxOps + MaxMade) : GetOperators(o)
    \/ Len(oper) < MaxOps + MaxMade /\ Optimize

Spec == Init /\ [][Next]_vars

---------------------------------------------------------------------------
(* The graph invariants of the data model, as predicates on a graph value *)

OpsOf(g) == Range(g.ops)
TensorsOf(g) == Range(g.tensors)

\* the sources of the inputs of operator o
SourcesOfInputs(g, o) ==
    { g.tens[t].source : t \in Range(g.oper[o].inputs) } \ {None}

\* the targets of the outputs of operator o
TargetsOfOutputs(g, o) ==
    UNION { Range(g.tens[t].targets) : t \in Range(g.oper[o].outputs) }

\* operator o is linked both ways with its tensors and its neighbour sets are the derived ones
OperatorLinked(g, o) ==
    /\ \A t \in Range(g.oper[o].inputs) : InSeq(g.tens[t].targets, o)
    /\ \A t \in Range(g.oper[o].outputs) : g.tens[t].source = o
    /\ Range(g.oper[o].predecessors) = SourcesOfInputs(g, o)
    /\ Range(g.oper[o].successors) = TargetsOfOutputs(g, o)

\* tensor t is linked both ways with its operators
TensorLinked(g, t) ==
    /\ \A o \in Range(g.tens[t].targets) : InSeq(g.oper[o].inputs, t)
    /\ g.tens[t].source # None => InSeq(g.oper[g.tens[t].source].outputs, t)

\* the link invariants of the data model: every reference stays inside the graph
\* and the links agree in both directions (tensors not yet used are allowed)
WellLinked(g) ==
    /\ \A o \in OpsOf(g) :
          /\ OperatorLinked(g, o)
          /\ Range(g.oper[o].inputs) \cup Range(g.oper[o].outputs) \subseteq TensorsOf(g)
          /\ Range(g.oper[o].predecessors) \cup Range(g.oper[o].successors) \subseteq OpsOf(g)
    /\ \A t \in TensorsOf(g) :
          /\ TensorLinked(g, t)
          /\ Range(g.tens[t].targets) \subseteq OpsOf(g)
          /\ g.tens[t].source # None => g.tens[t].source \in OpsOf(g)

\* no tensor stands twice in the tensor list
ListedOnce(g) ==
    \A i, j \in 1..Len(g.tensors) : g.tensors[i] = g.tensors[j] => i = j

\* every invariant of the data model, checkValid's included
WellFormed(g) == checkValid(g) /\ WellLinked(g)

\* q[p[i]] = i for every i
ComposeToIdentity(p, q) ==
    Len(p) = Len(q) /\ \A i \in 0..(Len(p) - 1) : q[p[i + 1] + 1] = i

\* perm fixes every position but the last two, which it swaps
SwapsLastTwo(perm) ==
    LET r == Len(perm)
    IN r >= 2 /\ perm = [i \in 1..r |-> IF i = r - 1 THEN r - 1 ELSE IF i = r THEN r - 2 ELSE i - 1]

\* in g, t1 and t2 are operators of the list, x -> t1 -> y -> t2 -> z, y has exactly
\* one consumer and the permutations compose to the identity
InverseChain(g, t1, t2) ==
    /\ t1 \in OpsOf(g) /\ t2 \in OpsOf(g) /\ t1 # t2
    /\ g.oper[t1].type = "Transpose" /\ g.oper[t2].type = "Transpose"
    /\ g.tens[g.oper[t1].outputs[1]].targets = <<t2>>
    /\ g.oper[t2].inputs[1] = g.oper[t1].outputs[1]
    /\ ComposeToIdentity(g.oper[t1].permute, g.oper[t2].permute)

ChainX(g, t1) == g.oper[t1].inputs[1]
ChainY(g, t1) == g.oper[t1].outputs[1]
ChainZ(g, t2) == g.oper[t2].outputs[1]

\* optimize was called and returned
AfterOptimize == last.call = "optimize" /\ last.ret.ok

\* optimize was called, and returned or was left by an exception
OptimizeCalled == last.call = "optimize" /\ ~last.ret.hung

\* (C1) After optimize of a well-formed graph holding x -> Transpose(p) -> y ->
\* Transpose(q) -> z, with y consumed once and q[p[i]] = i, checkValid holds:
\* no listed tensor is without source and targets, and every source, target,
\* predecessor and successor is in the operator list.
C1_CheckValidAfterElimination ==
    (AfterOptimize /\ WellFormed(last.pre)
        /\ \E t1, t2 \in OpsOf(last.pre) : InverseChain(last.pre, t1, t2))
    => checkValid(Graph)

\* operator o of g has tensor z as an input
Reads(g, o, z) == InSeq(g.oper[o].inputs, z)

\* what the elimination of the pair t1, t2 of pre leaves in g: neither Transpose
\* is in the operator list, y and z are not in the tensor list, x is, and every
\* operator that read z reads x at the same input position
C2_Post(pre, g, t1, t2) ==
    LET x == ChainX(pre, t1)
        y == ChainY(pre, t1)
        z == ChainZ(pre, t2)
    IN /\ ~InSeq(g.ops, t1) /\ ~InSeq(g.ops, t2)
       /\ ~InSeq(g.tensors, y) /\ ~InSeq(g.tensors, z)
       /\ InSeq(g.tensors, x)
       /\ \A o \in OpsOf(pre) \ {t1, t2} :
             \A k \in 1..Len(pre.oper[o].inputs) :
                pre.oper[o].inputs[k] = z => g.oper[o].inputs[k] = x

\* (C2) The claim as stated: after optimize of a graph holding x -> Transpose(p) ->
\* y -> Transpose(q) -> z (y consumed once, q[p[i]] = i) both Transposes and the
\* tensors y and z are gone, x remains, and every consumer of z reads x at the
\* same input position.
C2_AsStated ==
    (AfterOptimize /\ WellLinked(last.pre))
    => \A t1, t2 \in OpsOf(last.pre) :
          InverseChain(last.pre, t1, t2) => C2_Post(last.pre, Graph, t1, t2)

\* tensor t of g is not the output of a Transpose
NotFromTranspose(g, t) ==
    g.tens[t].source = None \/ g.oper[g.tens[t].source].type # "Transpose"

\* no consumer of tensor t of g is a Transpose
NotIntoTranspose(g, t) ==
    \A o \in Range(g.tens[t].targets) : g.oper[o].type # "Transpose"

\* the pair t1, t2 is not part of a longer run of Transposes
IsolatedChain(g, t1, t2) ==
    /\ InverseChain(g, t1, t2)
    /\ NotFromTranspose(g, ChainX(g, t1))
    /\ NotIntoTranspose(g, ChainZ(g, t2))

\* (C2, amended) The same, in a graph whose links are consistent and whose
\* tensor list names no tensor twice, for a pair that is not part of a longer
\* run of Transposes: x is not produced by a Transpose and no consumer of z is
\* a Transpose.
C2_EliminationResult ==
    (OptimizeCalled /\ WellLinked(last.pre) /\ ListedOnce(last.pre))
    => \A t1, t2 \in OpsOf(last.pre) :
          IsolatedChain(last.pre, t1, t2) => C2_Post(last.pre, Graph, t1, t2)

\* (C2, witness) optimize has run on a graph holding such a pair whose final
\* output z was read by a MatMul, and the MatMul now reads x at that position
C2_Witness ==
    /\ AfterOptimize /\ WellLinked(last.pre) /\ ListedOnce(last.pre)
    /\ \E t1, t2 \in OpsOf(last.pre) :
          /\ IsolatedChain(last.pre, t1, t2)
          /\ \E o \in OpsOf(last.pre) \ {t1, t2} :
                /\ Reads(last.pre, o, ChainZ(last.pre, t2))
                /\ o \in OpsOf(Graph)
                /\ Reads(Graph, o, ChainX(last.pre, t1))
          /\ C2_Post(last.pre, Graph, t1, t2)

---------------------------------------------------------------------------
(* Fusion of a Transpose into a MatMul *)

MatmulsOf(g) == { o \in OpsOf(g) : g.oper[o].type = "MatMul" }

\* operand k of MatMul mm of g is the output X of Transpose t, which swaps only
\* the last two dimensions of its input
TransposedOperand(g, mm, k, t) ==
    /\ mm \in MatmulsOf(g) /\ t \in OpsOf(g)
    /\ g.oper[t].type = "Transpose"
    /\ g.oper[t].outputs[1] = g.oper[mm].inputs[k]
    /\ g.tens[g.oper[mm].inputs[k]].source = t
    /\ SwapsLastTwo(g.oper[t].permute)

\* mm is the only MatMul of g, exactly its operand k comes from a last-two-dims
\* Transpose t, and that operand has no consumer but mm
SoleFusable(g, mm, k, t) ==
    /\ MatmulsOf(g) = {mm}
    /\ TransposedOperand(g, mm, k, t)
    /\ \A t2 \in OpsOf(g) : ~TransposedOperand(g, mm, 3 - k, t2)
    /\ g.oper[mm].inputs[1] # g.oper[mm].inputs[2]
    /\ Range(g.tens[g.oper[mm].inputs[k]].targets) = {mm}

\* the flag of operand k
TransFlag(op, k) == IF k = 1 THEN op.transA ELSE op.transB

\* n is the MatMul that replaces mm of pre: operand k reads the Transpose's input
\* with its flag negated, the rest is as it was, and the output C names n as source
FusedInto(pre, g, mm, k, t, n) ==
    LET old == pre.oper[mm]
        X0 == pre.oper[t].inputs[1]
        C == old.outputs[1]
    IN /\ g.oper[n].type = "MatMul"
       /\ g.oper[n].inputs = [old.inputs EXCEPT ![k] = X0]
       /\ TransFlag(g.oper[n], k) = ~TransFlag(old, k)
       /\ TransFlag(g.oper[n], 3 - k) = TransFlag(old, 3 - k)
       /\ g.oper[n].outputs = <<C>>
       /\ InSeq(g.tensors, C)
       /\ g.tens[C].source = n
       /\ ~InSeq(g.ops, t)
       /\ ~InSeq(g.tensors, old.inputs[k])

\* n stands in g where mm stands in the list order: the operators that remain
\* are before n exactly when they were before mm
TakesPlaceOf(order, g, mm, n) ==
    \A o \in (OpsOf(g) \cap Range(order)) \ {mm} :
       (IndexOf(g.ops, o) < IndexOf(g.ops, n)) <=> (IndexOf(order, o) < IndexOf(order, mm))

\* (C3) The claim as stated: a MatMul with exactly one operand X produced by a
\* last-two-dims Transpose of X0, X read by nothing else: after optimize the
\* list holds exactly one MatMul, standing in the operator list where the old
\* MatMul stood, reading X0 in place of X with that operand's flag negated; the
\* Transpose and X are not in the lists, and the output names the new MatMul as
\* its source.
C3_AsStated ==
    (AfterOptimize /\ WellLinked(last.pre))
    => \A mm, t \in OpsOf(last.pre) : \A k \in {1, 2} :
          SoleFusable(last.pre, mm, k, t)
          => \E n \in OpsOf(Graph) :
                /\ MatmulsOf(Graph) = {n}
                /\ TakesPlaceOf(last.pre.ops, Graph, mm, n)
                /\ FusedInto(last.pre, Graph, mm, k, t, n)

\* no Transpose of g reads the output of another Transpose
NoTransposeChain(g) ==
    \A t \in OpsOf(g) :
       g.oper[t].type = "Transpose" => NotFromTranspose(g, g.oper[t].inputs[1])

\* (C3, amended) The same in a graph whose links are consistent, whose tensor
\* list names no tensor twice and where no Transpose reads the output of
\* another Transpose, with the position taken in the topologically sorted
\* list: the new MatMul stands where the old one stood among the operators
\* that remain.
C3_FusionResult ==
    (OptimizeCalled /\ WellLinked(last.pre) /\ ListedOnce(last.pre))
    => \A mm, t \in OpsOf(last.pre) : \A k \in {1, 2} :
          (SoleFusable(last.pre, mm, k, t) /\ NoTransposeChain(last.pre))
          => \E n \in OpsOf(Graph) :
                /\ MatmulsOf(Graph) = {n}
                /\ n # mm
                /\ TakesPlaceOf(topo_sort(last.pre).g.ops, Graph, mm, n)
                /\ FusedInto(last.pre, Graph, mm, k, t, n)

\* (C3, witness) optimize has fused the only MatMul of a graph with its
\* transposed operand while another operator of the graph stayed in the list
C3_Witness ==
    /\ AfterOptimize /\ WellLinked(last.pre) /\ ListedOnce(last.pre)
    /\ \E mm, t \in OpsOf(last.pre) : \E k \in {1, 2} :
          /\ SoleFusable(last.pre, mm, k, t)
          /\ NoTransposeChain(last.pre)
          /\ \E n \in OpsOf(Graph) :
                /\ MatmulsOf(Graph) = {n}
                /\ FusedInto(last.pre, Graph, mm, k, t, n)
                /\ (OpsOf(Graph) \cap OpsOf(last.pre)) \ {mm} # {}

\* operand B of MatMul mm of g is the output of the last-two-dims Transpose tb,
\* operand A is not fused, and d is another consumer of B
SharedOperandB(g, mm, tb, d) ==
    /\ TransposedOperand(g, mm, 2, tb)
    /\ \A t2 \in OpsOf(g) : ~TransposedOperand(g, mm, 1, t2)
    /\ d \in OpsOf(g) /\ d # mm
    /\ InSeq(g.tens[g.oper[mm].inputs[2]].targets, d)
    /\ Reads(g, d, g.oper[mm].inputs[2])

\* (C4) When the transposed operand B = Transpose(B0) of a MatMul has a second
\* consumer D, after optimize the Transpose and B are still in the lists, the
\* Transpose is still in B0.targets and still reads B0, D still reads B and is
\* in B.targets, no MatMul, old or new, is in B.targets, and a new MatMul reads
\* B0 with transB negated.
C4_OnlyTheMatmulEdgeChanges ==
    (AfterOptimize /\ WellFormed(last.pre))
    => \A mm, tb, d \in OpsOf(last.pre) :
          SharedOperandB(last.pre, mm, tb, d)
          => LET B == last.pre.oper[mm].inputs[2]
                 B0 == last.pre.oper[tb].inputs[1]
             IN /\ InSeq(ops, tb) /\ InSeq(tensors, B)
                /\ InSeq(tens[B0].targets, tb)
                /\ oper[tb].inputs = <<B0>>
                /\ Reads(Graph, d, B) /\ InSeq(tens[B].targets, d)
                /\ \A o \in Range(tens[B].targets) : oper[o].type # "MatMul"
                /\ \E n \in MatmulsOf(Graph) \ {mm} :
                      /\ oper[n].inputs[2] = B0
                      /\ oper[n].transB = ~last.pre.oper[mm].transB

\* the operators of pre that a fusion pass took out of the list
RemovedOps(pre, g) == OpsOf(pre) \ OpsOf(g)

\* operator o is referred to by no tensor of the list and no operator of the list
Unreferenced(g, o) ==
    /\ \A t \in TensorsOf(g) : g.tens[t].source # o /\ ~InSeq(g.tens[t].targets, o)
    /\ \A p \in OpsOf(g) :
          ~InSeq(g.oper[p].predecessors, o) /\ ~InSeq(g.oper[p].successors, o)

\* optimize replaced a MatMul of pre by a new one
Rewrote(pre, g) ==
    \E mm \in MatmulsOf(pre) : \E n \in MatmulsOf(g) : mm \notin OpsOf(g) /\ n \notin OpsOf(pre)

\* (C5) After the transpose-into-matmul pass rewrote a MatMul every graph
\* invariant holds: the replaced MatMul and a removed Transpose are referred to by
\* no targets, source, predecessors or successors; the new MatMul is in the
\* targets of exactly its own inputs and is the source of its output; and the
\* predecessor/successor sets equal those derived from inputs and outputs.
C5_InvariantsAfterFusion ==
    (AfterOptimize /\ WellFormed(last.pre) /\ Rewrote(last.pre, Graph))
    => /\ \A o \in RemovedOps(last.pre, Graph) : Unreferenced(Graph, o)
       /\ \A n \in MatmulsOf(Graph) \ OpsOf(last.pre) :
             /\ \A t \in TensorsOf(Graph) :
                   InSeq(tens[t].targets, n) <=> InSeq(oper[n].inputs, t)
             /\ tens[oper[n].outputs[1]].source = n
       /\ WellLinked(Graph)

---------------------------------------------------------------------------
(* optimize, run twice *)

\* what the claim compares: the two lists, and per listed operator and tensor
\* the inputs, outputs, attributes, source and targets
Shape(g) ==
    [ ops |-> g.ops,
      tensors |-> g.tensors,
      oper |-> [o \in OpsOf(g) |->
                  [ type |-> g.oper[o].type, inputs |-> g.oper[o].inputs,
                    outputs |-> g.oper[o].outputs, transA |-> g.oper[o].transA,
                    transB |-> g.oper[o].transB, permute |-> g.oper[o].permute ]],
      tens |-> [t \in TensorsOf(g) |->
                  [ source |-> g.tens[t].source, targets |-> g.tens[t].targets ]] ]

\* (C7) optimize is idempotent: a second optimize directly after the first leaves
\* the operator list, the tensor list, every operator's inputs, outputs and
\* attributes and every tensor's source and targets as the first call left them.
C7_OptimizeIdempotent ==
    AfterOptimize
    => LET again == optimize(Graph)
       IN ~again.err /\ ~again.hung /\ Shape(again.g) = Shape(Graph)

---------------------------------------------------------------------------
(* Specification SpecBuild: graphs built by the three addTensor overloads,
   addOpWithOutputs and addOp alone, from every Transpose wiring over three
   tensors (self-loops, mutual feeding and two producers of one tensor included)
   and two MatMuls; a tensor may be listed twice, or be in no list.
   Specification SpecSort: the operators of the same menu over three tensors,
   added and removed again in any order, the caller keeping or letting go of
   its Refs, with topo_sort called at any time. *)

SortTensors == 1..3
SortMenu ==
    { Transpose(x, y, Identity2) : x \in SortTensors, y \in SortTensors }
    \cup { Matmul(1, 2, 3, FALSE, FALSE), Matmul(3, 1, 2, FALSE, FALSE) }

NextBuild ==
    \/ AddTensor(Square)
    \/ \E t \in 1..MaxTensors : Len(tens) < MaxRefTensors /\ AddTensorRef(t, Square)
    \/ \E vec \in TensorVecs : Len(tens) < MaxRefTensors /\ AddTensors(vec)
    \/ \E d \in SortMenu : Len(oper) < MaxOps /\ AddOpWithOutputs(d)
    \/ \E d \in SortMenu : Len(oper) < MaxOps /\ AddOp(d)

SpecBuild == Init /\ [][NextBuild]_vars

\* the tensor the caller removes from the tensor list
SortRemoved == { 2 }

NextSort ==
    \/ Len(tens) < Cardinality(SortTensors) /\ AddTensor(Square)
    \/ \E d \in SortMenu : Len(oper) < MaxOps /\ AddOpWithOutputs(d)
    \/ \E o \in 1..MaxOps : Release(o)
    \/ \E o \in 1..MaxOps : GetOperators(o)
    \/ \E o \in 1..MaxOps : RemoveOperator(o)
    \/ \E t \in SortRemoved : Len(oper) > 0 /\ RemoveTensor(t)
    \/ TopoSort

SpecSort == Init /\ [][NextSort]_vars

\* (C6) After any sequence of addTensor and addOpWithOutputs calls, every listed
\* operator o is in the targets of each of its inputs and is the source of each of
\* its outputs, o.predecessors is the set of sources of its inputs and
\* o.successors the union of the targets of its outputs.
C6_LinksAfterConstruction ==
    \A o \in OpsOf(Graph) : OperatorLinked(Graph, o)

\* the list after is the list before, reordered
IsPermutation(s1, s2) ==
    /\ Len(s1) = Len(s2)
    /\ \A x \in Range(s1) \cup Range(s2) :
          Cardinality({i \in 1..Len(s1) : s1[i] = x}) = Cardinality({i \in 1..Len(s2) : s2[i] = x})

\* in list s every input of every operator that has a source (getSource gives
\* an operator) has it earlier in s
ProducersFirst(g, s) ==
    \A i \in 1..Len(s) : \A t \in Range(g.oper[s[i]].inputs) :
       getSource(g, t) # None => \E j \in 1..(i - 1) : s[j] = getSource(g, t)

AfterTopoSort == last.call = "topo_sort"

\* (C8) Whenever topo_sort returns success the operator list is a permutation of
\* the list before the call, and every input that has a source has that source
\* at an earlier position.
C8_SortedOrder ==
    (AfterTopoSort /\ last.ret.ok)
    => /\ IsPermutation(ops, last.pre.ops)
       /\ ProducersFirst(Graph, ops)

\* p produces an input of o
Feeds(g, p, o) == \E t \in Range(g.oper[o].inputs) : getSource(g, t) = p

\* the operators reached from o along Feeds in at most n steps
RECURSIVE ReachedFrom(_, _, _)
ReachedFrom(g, S, n) ==
    IF n = 0 THEN S
    ELSE ReachedFrom(g, S \cup { o \in OpsOf(g) : \E p \in S : Feeds(g, p, o) }, n - 1)

\* some listed operator feeds itself through one or more listed operators
HasCycle(g) ==
    \E o \in OpsOf(g) :
       \E o1 \in OpsOf(g) : Feeds(g, o, o1) /\ o \in ReachedFrom(g, {o1}, Len(g.ops))

\* (C9) If the producer relation between the operators has a cycle, topo_sort
\* returns failure and leaves the operator list and the sorted flag, false, as
\* they were; without a cycle it returns success.
C9_CycleDetected ==
    AfterTopoSort
    => /\ HasCycle(last.pre)
          => (~last.ret.ok /\ ops = last.pre.ops /\ sorted = FALSE)
       /\ ~HasCycle(last.pre) => last.ret.ok

---------------------------------------------------------------------------
(* Specification SpecMalloc: tensors of several sizes (a scalar, 12 bytes, 16
   bytes, no bytes), some of them listed twice, a few operators over them, and
   dataMalloc. *)

MallocShapes == { <<>>, <<3>>, Square, <<2, 0>> }
MallocMenu ==
    { Transpose(1, 2, Identity2), Transpose(2, 1, Identity2), Matmul(1, 2, 3, FALSE, FALSE) }

NextMalloc ==
    \/ \E shape \in MallocShapes : AddTensor(shape)
    \/ \E t \in 1..MaxTensors : \E shape \in MallocShapes :
          Len(tens) < MaxRefTensors /\ AddTensorRef(t, shape)
    \/ \E d \in MallocMenu : Len(oper) < MaxOps /\ AddOpWithOutputs(d)
    \/ DataMalloc

SpecMalloc == Init /\ [][NextMalloc]_vars

\* the iteration of the binding loop that bound tensor t last
LastBound(t) ==
    CHOOSE i \in 1..Len(tensors) :
       tensors[i] = t /\ \A j \in (i + 1)..Len(tensors) : tensors[j] # t

\* the pointer getPtr returned in that iteration
BaseOf(t) == last.value[LastBound(t)][2]

\* the offset of tensor t in the arena, and the bytes of [offset, offset + bytes)
OffsetOf(t) == tens[t].data - BaseOf(t)
BytesOf(t) == OffsetOf(t) .. (OffsetOf(t) + getBytes(Graph, t) - 1)

AfterDataMalloc == last.call = "dataMalloc" /\ last.ret.ok

\* (C10) After dataMalloc on an acyclic graph with an uncommitted allocator every
\* tensor lies inside the arena, offset + bytes <= peak, and the byte ranges of
\* two distinct tensors do not overlap.
C10_RangesInsideAndDisjoint ==
    AfterDataMalloc
    => /\ \A t \in TensorsOf(Graph) :
             /\ tens[t].data # NoData
             /\ OffsetOf(t) = last.value[LastBound(t)][1]
             /\ OffsetOf(t) >= 0
             /\ OffsetOf(t) + getBytes(Graph, t) <= peak
       /\ \A t1, t2 \in TensorsOf(Graph) : t1 # t2 => BytesOf(t1) \cap BytesOf(t2) = {}

\* (C10, witness) dataMalloc has placed at least three tensors, one of 12 bytes
\* followed by another that is not empty, inside the arena
C10_Witness ==
    /\ AfterDataMalloc
    /\ Len(tensors) >= 3
    /\ \E t1, t2 \in TensorsOf(Graph) :
          /\ getBytes(Graph, t1) = 12 /\ getBytes(Graph, t2) > 0
          /\ OffsetOf(t2) = OffsetOf(t1) + 16
    /\ \A t \in TensorsOf(Graph) : OffsetOf(t) + getBytes(Graph, t) <= peak

---------------------------------------------------------------------------
(* Specification SpecRerun: one Transpose feeding MatMuls that write the same
   output tensor, with a consumer of that tensor, then optimize. *)

MaxRerunOps == 4    \* operators added by addOpWithOutputs
RerunMenu ==
    { Transpose(1, 2, Swap2), Transpose(4, 5, Identity2),
      Matmul(2, 3, 4, FALSE, FALSE), Matmul(2, 3, 4, FALSE, TRUE) }

NextRerun ==
    \/ AddTensor(Square)
    \/ \E d \in RerunMenu : Len(oper) < MaxRerunOps /\ AddOpWithOutputs(d)
    \/ \E o \in 1..MaxRerunOps : Release(o)
    \/ \E o \in (MaxRerunOps + 1)..(MaxRerunOps + MaxMade) : GetOperators(o)
    \/ Optimize

SpecRerun == Init /\ [][NextRerun]_vars

---------------------------------------------------------------------------
(* Specification SpecCommit: one graph and its allocator over their whole life:
   tensors are added, dataMalloc plans and binds them, the allocator is also
   called directly, and at the end both are destructed. *)

CommitSizes == { 0, 16 }

NextCommit ==
    \/ AddTensor(Square)
    \/ DataMalloc
    \/ \E size \in CommitSizes : caller.allocs < MaxCommitAllocs /\ Alloc(size)
    \/ \E i \in 1..MaxCommitAllocs : Free(i)
    \/ GetPtr
    \/ Destroy

SpecCommit == Init /\ [][NextCommit]_vars

\* (C11) The runtime's alloc is called at most once, by the getPtr that finds
\* no pointer cached, for peak bytes; a later getPtr returns the cached pointer
\* and calls nothing; a dataMalloc that binds tensors requests the peak reached
\* after all of its allocs; destruction calls dealloc once if the buffer was
\* acquired and never otherwise.
C11_BufferAcquiredOnce ==
    /\ Len(runtime.allocs) <= 1
    /\ last.call = "getPtr"
       => /\ last.ret.addr = ptr
          /\ IF last.arena.ptr = None
             THEN runtime.allocs = Append(last.arena.runtime.allocs, last.arena.peak)
             ELSE last.ret.addr = last.arena.ptr /\ runtime = last.arena.runtime
    /\ (AfterDataMalloc /\ Len(tensors) > 0)
       => /\ Len(runtime.allocs) > Len(last.arena.runtime.allocs)
          /\ \A k \in (Len(last.arena.runtime.allocs) + 1)..Len(runtime.allocs) :
                runtime.allocs[k] = peak
    /\ runtime.deallocs = (IF destroyed /\ ptr # None THEN 1 ELSE 0)

\* the last call found the buffer materialized
Committed == last.arena.ptr # None

\* used, peak and the free-list are as they were before the last call
ArenaUntouched ==
    /\ used = last.arena.used
    /\ peak = last.arena.peak
    /\ freeBlocks = last.arena.freeBlocks

\* (C12) Once getPtr has materialized the buffer, an alloc or a free fails its
\* assertion and leaves used, peak and the free-list unchanged, and a dataMalloc
\* on a graph with at least one tensor fails and rebinds no tensor.
C12_NoPlanningAfterCommit ==
    /\ (last.call \in {"alloc", "free"} /\ Committed)
       => ~last.ret.ok /\ ArenaUntouched
    /\ (last.call = "dataMalloc" /\ Committed /\ Len(last.pre.tensors) > 0)
       => /\ ~last.ret.ok
          /\ ArenaUntouched
          /\ ptr = last.arena.ptr
          /\ \A t \in 1..Len(tens) : tens[t].data = last.pre.tens[t].data

\* (C12, witness) a free of a live range was refused after dataMalloc had bound a
\* tensor and materialized the buffer
C12_Witness ==
    /\ last.call = "free"
    /\ Committed
    /\ ~last.ret.ok
    /\ last.arena.used > 0
    /\ \E t \in TensorsOf(Graph) : tens[t].data # NoData

---------------------------------------------------------------------------
(* Specification SpecArena: the allocator called directly: alloc with sizes
   that round to 0, 8 and 16 bytes, free of a range that alloc returned and
   that is still live, getPtr, destruction. *)

ArenaSizes == { 0, 3, 16 }

NextArena ==
    \/ \E size \in ArenaSizes : caller.allocs < MaxAllocs /\ Alloc(size)
    \/ \E i \in 1..MaxAllocs : Free(i)
    \/ GetPtr
    \/ Destroy

SpecArena == Init /\ [][NextArena]_vars

\* the bytes of the free block at offset k
BlockBytes(fb, k) == k .. (k + fb[k] - 1)

\* (C13) The intervals of the free-list are pairwise disjoint and non-adjacent:
\* no two free blocks share a byte and no free block ends at the offset where
\* another begins.
C13_FreeListCoalesced ==
    \A j, k \in DOMAIN freeBlocks :
        j # k => /\ BlockBytes(freeBlocks, j) \cap BlockBytes(freeBlocks, k) = {}
                 /\ j + freeBlocks[j] # k

\* every range the caller got from alloc has been freed, and no alloc followed a free
AllFreedInOrder == caller.allocs > 0 /\ caller.live = <<>> /\ caller.ordered

\* (C14) After a sequence of allocs, freeing every allocated range exactly once,
\* in any order, leaves used = 0 and the free-list holding the single block
\* (0, peak), with peak as it was before the first free.
C14_FreeAllRestores ==
    AllFreedInOrder
    => /\ used = 0
       /\ DOMAIN freeBlocks = {0}
       /\ freeBlocks[0] = peak
       /\ peak = caller.peak0

\* the last call was an alloc that passed its assertion; the size it was asked for
AfterAlloc == last.call = "alloc" /\ last.ret.ok
AskedSize == getAlignedSize(caller.live[Len(caller.live)].size)

\* no block of free-list fb ends at peak p
NoTailBlock(fb, p) == \A k \in DOMAIN fb : k + fb[k] # p

\* the offsets of the blocks of fb that can hold size bytes
Fitting(fb, size) == { k \in DOMAIN fb : fb[k] >= size }

\* free-list fb with block k replaced by what is left of it after size bytes
\* were taken from its low end
Split(fb, k, size) ==
    [x \in ((DOMAIN fb) \ {k}) \cup (IF fb[k] > size THEN {k + size} ELSE {}) |->
        IF x = k + size /\ fb[k] > size THEN fb[k] - size ELSE fb[x]]

\* (C15) When no free block ends at peak, alloc takes the lowest-offset free
\* block that is large enough: it returns that offset, removes the block, keeps
\* the remainder as a free block when there is one, leaves peak unchanged and
\* adds the aligned size to used; only when no block is large enough does it
\* return peak and extend the arena.
C15_FirstFit ==
    (AfterAlloc /\ NoTailBlock(last.arena.freeBlocks, last.arena.peak))
    => LET fb == last.arena.freeBlocks
           fits == Fitting(fb, AskedSize)
           k == CHOOSE x \in fits : \A y \in fits : x <= y
       IN /\ used = last.arena.used + AskedSize
          /\ IF fits # {}
             THEN /\ last.ret.addr = k
                  /\ freeBlocks = Split(fb, k, AskedSize)
                  /\ peak = last.arena.peak
             ELSE /\ last.ret.addr = last.arena.peak
                  /\ freeBlocks = fb
                  /\ peak = last.arena.peak + AskedSize

\* (C15, witness) alloc took the lower of two free blocks that were both large
\* enough, neither at the end of the arena, and left a remainder
C15_Witness ==
    /\ AfterAlloc
    /\ NoTailBlock(last.arena.freeBlocks, last.arena.peak)
    /\ Cardinality(Fitting(last.arena.freeBlocks, AskedSize)) >= 2
    /\ AskedSize > 0
    /\ last.arena.freeBlocks[last.ret.addr] > AskedSize
    /\ peak = last.arena.peak

\* (C16) In an uncommitted allocator, whatever the free-list and peak, alloc(0)
\* rounds the size to 0 and leaves used and peak unchanged.
C16_AllocZero ==
    (AfterAlloc /\ caller.live[Len(caller.live)].size = 0)
    => /\ AskedSize = 0
       /\ used = last.arena.used
       /\ peak = last.arena.peak

\* (C16, witness) alloc(0) was called with bytes in use and a non-empty free-list
C16_Witness ==
    /\ AfterAlloc
    /\ caller.live[Len(caller.live)].size = 0
    /\ last.arena.used > 0
    /\ DOMAIN last.arena.freeBlocks # {}
    /\ last.arena.peak > 0

---------------------------------------------------------------------------
(* Specification SpecInfer: matrices of three shapes, Transposes and a MatMul
   added in any order, input shapes changed by the user, an output tensor
   taken off the tensor list by removeTensor, and shape_infer. *)

InferShapes == { Square, <<2, 3>>, <<3, 2>> }
MaxInferTensors == 4    \* tensors created by addTensor
InferTensors == 1..MaxInferTensors
InferRemoved == { 2, 3 }
InferMenu ==
    { Transpose(1, 2, Swap2), Transpose(2, 3, Swap2), Transpose(2, 3, Identity2),
      Matmul(1, 3, 4, FALSE, FALSE) }

NextInfer ==
    \/ \E shape \in InferShapes : Len(tens) < MaxInferTensors /\ AddTensor(shape)
    \/ \E d \in InferMenu : Len(oper) < MaxOps /\ AddOpWithOutputs(d)
    \/ \E t \in InferTensors : \E shape \in InferShapes : SetShape(t, shape)
    \/ \E t \in InferRemoved : RemoveTensor(t)
    \/ ShapeInfer

SpecInfer == Init /\ [][NextInfer]_vars

\* the last call was a shape_infer that completed, on a graph without cycles
AfterShapeInfer == last.call = "shape_infer" /\ last.ret.ok /\ Acyclic(last.pre)

\* the shapes of the tensors of graph g, by tensor
ShapesOf(g) == [t \in 1..Len(g.tens) |-> g.tens[t].shape]

\* (C17) shape_infer is idempotent: on an acyclic graph, whatever the order of
\* the operator list, a second shape_infer directly after the first one
\* completes and leaves every tensor's shape as the first call left it.
C17_ShapeInferIdempotent ==
    AfterShapeInfer
    => /\ shape_infer(Graph).ok
       /\ ShapesOf(shape_infer(Graph).g) = ShapesOf(Graph)

---------------------------------------------------------------------------
(* Specification SpecBroadcast: infer_broadcast applied to every pair of
   shapes of rank up to MaxRank with dimensions 0..MaxDim. *)

MaxRank == 3
MaxDim == 3

BroadcastShapes == UNION { [1..n -> 0..MaxDim] : n \in 0..MaxRank }

\* one call per behaviour
NextBroadcast ==
    /\ last.call = "init"
    /\ \E A, B \in BroadcastShapes : InferBroadcast(A, B)

SpecBroadcast == Init /\ [][NextBroadcast]_vars

AfterBroadcast == last.call = "infer_broadcast"

\* dimension i, counted from the right from 0, of shape S left-padded with 1s to rank n
Padded(S, n, i) == IF i < Len(S) THEN S[Len(S) - i] ELSE 1

\* every aligned pair of dimensions of A and B is equal or contains a 1
Compatible(A, B) ==
    \A i \in 0..(Max(Len(A), Len(B)) - 1) :
        LET a == Padded(A, Max(Len(A), Len(B)), i)
            b == Padded(B, Max(Len(A), Len(B)), i)
        IN a = b \/ a = 1 \/ b = 1

\* (C18) The claim as stated: for compatible shapes of non-negative integers the
\* result has the longer rank and every dimension is the maximum of the aligned
\* pair; for incompatible shapes the assertion fails.
C18_AsStated ==
    AfterBroadcast
    => LET A == last.args[1]
           B == last.args[2]
           n == Max(Len(A), Len(B))
       IN IF Compatible(A, B)
          THEN /\ last.ret.ok
               /\ Len(last.value) = n
               /\ \A i \in 0..(n - 1) :
                     last.value[n - i] = Max(Padded(A, n, i), Padded(B, n, i))
          ELSE ~last.ret.ok

\* (C18) For compatible shapes the result has the longer rank and every dimension
\* is the common value of an equal pair and otherwise the dimension that is not
\* 1, which is the maximum of the pair unless the other dimension is 0; for
\* incompatible shapes the assertion fails.
C18_BroadcastResult ==
    AfterBroadcast
    => LET A == last.args[1]
           B == last.args[2]
           n == Max(Len(A), Len(B))
       IN IF Compatible(A, B)
          THEN /\ last.ret.ok
               /\ Len(last.value) = n
               /\ \A i \in 0..(n - 1) :
                     /\ Padded(A, n, i) = 1 => last.value[n - i] = Padded(B, n, i)
                     /\ Padded(B, n, i) = 1 => last.value[n - i] = Padded(A, n, i)
                     /\ Padded(A, n, i) = Padded(B, n, i) => last.value[n - i] = Padded(A, n, i)
                     /\ (Padded(A, n, i) # 0 /\ Padded(B, n, i) # 0)
                        => last.value[n - i] = Max(Padded(A, n, i), Padded(B, n, i))
          ELSE ~last.ret.ok

\* (C18, witness) shapes of different rank were broadcast, one pair being a 0
\* against a 1 and another a 1 against a larger dimension
C18_Witness ==
    /\ AfterBroadcast
    /\ last.ret.ok
    /\ Len(last.args[1]) = 3
    /\ Len(last.args[2]) = 2
    /\ last.args[1][3] = 0 /\ last.args[2][2] = 1
    /\ last.args[1][2] = 1 /\ last.args[2][1] = 3
    /\ last.value = <<last.args[1][1], 3, 0>>

---------------------------------------------------------------------------
(* Claims about addOpWithOutputs, under SpecBuild *)

\* the last call was addOpWithOutputs and the output it declared had a source
AddedSecondProducer ==
    /\ last.call = "addOpWithOutputs"
    /\ last.pre.tens[oper[Len(oper)].outputs[1]].source # None

\* (C19) addOpWithOutputs with a declared output tensor whose source is already
\* set is rejected and leaves the graph untouched: the operator list, that
\* tensor's source and every tensor's targets are as before the call.
C19_SecondProducerRejected ==
    AddedSecondProducer
    => /\ ops = last.pre.ops
       /\ tens[oper[Len(oper)].outputs[1]].source
             = last.pre.tens[oper[Len(oper)].outputs[1]].source
       /\ \A t \in 1..Len(tens) : tens[t].targets = last.pre.tens[t].targets

---------------------------------------------------------------------------
(* Termination of optimize, under Spec *)

\* (C20) optimize terminates on every acyclic graph: called on a well-formed
\* graph without cycles it returns after a bounded number of loop iterations
\* (at most two per operator, and one more), the last of which is one in which
\* neither pass reports a change, and on the graph it leaves neither the
\* elimination scan nor the fusion scan finds anything.
C20_OptimizeTerminates ==
    (last.call = "optimize" /\ WellFormed(last.pre) /\ Acyclic(last.pre))
    => /\ last.ret.ok
       /\ last.ret.iters <= 2 * Len(last.pre.ops) + 1
       /\ last.ret.iters = last.ret.changes + 1
       /\ ~removeRedundantTranspose(Graph).changed
       /\ ~fuseTransposeIntoMatmul(removeRedundantTranspose(Graph).g).changed

---------------------------------------------------------------------------
(* The rule applications of one optimize call, under Spec *)

\* the number of Transpose operators in the operator list of g
TransposeCount(g) ==
    Cardinality({ i \in 1..Len(g.ops) : g.oper[g.ops[i]].type = "Transpose" })

\* the log entry of one rule application that rewrote graph g into graph h
Applied(rule, g, h) ==
    [rule |-> rule, before |-> TransposeCount(g), after |-> TransposeCount(h)]

\* the eliminations of one removeRedundantTranspose pass, appended to log
RECURSIVE ElimLog(_, _, _)

ElimLogNext(g, h, log) ==
    IF h.thrown THEN [g |-> h, log |-> log, err |-> TRUE]
    ELSE ElimLog(h, 1, Append(log, Applied("eliminate", g, h)))

ElimLog(g, i, log) ==
    IF i > Len(g.ops) THEN [g |-> g, log |-> log, err |-> FALSE]
    ELSE IF TargetsGone(g, i) THEN [g |-> Throw(g), log |-> log, err |-> TRUE]
    ELSE IF RedundantAt(g, i) THEN ElimLogNext(g, SpliceOut(g, g.ops[i]), log)
    ELSE ElimLog(g, i + 1, log)

\* the fusions of one fuseTransposeIntoMatmul pass, appended to log
RECURSIVE FuseLog(_, _, _)

FuseLogNext(g, r, i, log) ==
    IF r.err THEN [g |-> r.g, log |-> log, err |-> TRUE]
    ELSE FuseLog(r.g, i + 1, Append(log, Applied("fuse", g, r.g)))

FuseLog(g, i, log) ==
    IF i > Len(g.ops) THEN [g |-> g, log |-> log, err |-> FALSE]
    ELSE IF g.oper[g.ops[i]].type # "MatMul" THEN FuseLog(g, i + 1, log)
    ELSE IF FromLastTwoDimTranspose(g, g.oper[g.ops[i]].inputs[1])
    THEN FuseLogNext(g, FuseA(g, g.ops[i]), i, log)
    ELSE IF FromLastTwoDimTranspose(g, g.oper[g.ops[i]].inputs[2])
    THEN FuseLogNext(g, FuseB(g, g.ops[i]), i, log)
    ELSE FuseLog(g, i + 1, log)

\* the rule applications of the optimize loop started on g, in order; the loop
\* goes round again when an iteration added n entries or more than n
RECURSIVE OptimizeLog(_, _)

OptimizeLogAfter(r2, n) ==
    IF r2.err \/ Len(r2.log) = n \/ Len(r2.log) >= 2 * MaxIters THEN r2.log
    ELSE OptimizeLog(r2.g, r2.log)

OptimizeLogFuse(r1, n) ==
    IF r1.err THEN r1.log
    ELSE OptimizeLogAfter(FuseLog(topo_sort(r1.g).g, 1, r1.log), n)

OptimizeLog(g, log) == OptimizeLogFuse(ElimLog(g, 1, log), Len(log))

\* the rule applications of the optimize call that was just made
RuleLog == OptimizeLog(last.pre, <<>>)

\* every entry of the log lowered the number of Transpose operators
AllLower(log) == \A k \in 1..Len(log) : log[k].after < log[k].before

\* no entry raised the number: an elimination lowered it by one or two, a
\* fusion by one or not at all
NoneRaises(log) ==
    \A k \in 1..Len(log) :
        IF log[k].rule = "eliminate"
        THEN log[k].after \in { log[k].before - 2, log[k].before - 1 }
        ELSE log[k].after \in { log[k].before - 1, log[k].before }

\* (C21, as stated) every application of a rewrite rule strictly lowers the
\* number of Transpose operators in the operator list, and the iterations of
\* the optimize loop that report a change are at most as many as the
\* Transpose operators the graph had before the call.
C21_AsStated ==
    last.call = "optimize"
    => /\ AllLower(RuleLog)
       /\ last.ret.changes <= TransposeCount(last.pre)

\* the fusions of the log that kept their Transpose, its output having another
\* target (graph.cc:378)
KeptFusions(log) ==
    Cardinality({ k \in 1..Len(log) :
                    log[k].rule = "fuse" /\ log[k].after = log[k].before })

\* (C21) no application of a rewrite rule raises the number of Transpose
\* operators in the operator list: an elimination lowers it (by two, or by one
\* when its second Transpose is no longer in the list), a fusion lowers it by
\* one or leaves it as it is; every iteration that reports a change
\* applied a rule, and a call that returns reports a change when it applied a
\* rule.  The iterations that report a change are at most as many as the
\* Transpose operators the graph had before the call and the fusions that
\* kept their Transpose, taken together; with no such fusion they are at most
\* as many as the Transpose operators.  The call may be one that never ends.
C21_RulesNeverAddTransposes ==
    last.call = "optimize"
    => LET log == RuleLog
       IN /\ NoneRaises(log)
          /\ last.ret.changes <= Len(log)
          /\ last.ret.ok => ((last.ret.changes = 0) = (log = <<>>))
          /\ last.ret.changes <= TransposeCount(last.pre) + KeptFusions(log)
          /\ AllLower(log) => last.ret.changes <= TransposeCount(last.pre)

\* (C21, witness) optimize returned after a fusion that removed its Transpose
\* and one that kept it, having reported a change in more iterations than the
\* graph had Transpose operators
C21_Witness ==
    /\ last.call = "optimize"
    /\ last.ret.ok
    /\ WellFormed(last.pre)
    /\ KeptFusions(RuleLog) > 0
    /\ \E k \in 1..Len(RuleLog) :
           RuleLog[k].rule = "fuse" /\ RuleLog[k].after = RuleLog[k].before - 1
    /\ last.ret.changes > TransposeCount(last.pre)

---------------------------------------------------------------------------
(* Specification SpecSplice: one inverse pair of Transposes x -> T1 -> y ->
   T2 -> z between MatMuls: a producer of x, a second consumer of x and a
   consumer of z, then optimize. No MatMul operand is fusable. *)

MaxSpliceOps == 4    \* operators added by addOpWithOutputs
SpliceMenu ==
    { Matmul(1, 1, 2, FALSE, FALSE), Transpose(2, 3, Swap2), Transpose(3, 4, Swap2),
      Matmul(4, 1, 5, FALSE, FALSE), Matmul(2, 1, 5, FALSE, FALSE) }

NextSplice ==
    \/ AddTensor(Square)
    \/ \E d \in SpliceMenu : Len(oper) < MaxSpliceOps /\ AddOpWithOutputs(d)
    \/ \E o \in 1..MaxSpliceOps : Release(o)
    \/ \E o \in (MaxSpliceOps + 1)..(MaxSpliceOps + MaxMade) : GetOperators(o)
    \/ Optimize

SpecSplice == Init /\ [][NextSplice]_vars

\* what the claim says the elimination of the pair t1, t2 of pre leaves in g
C22_Post(pre, g, t1, t2) ==
    LET x == ChainX(pre, t1)
        z == ChainZ(pre, t2)
        P == pre.tens[x].source
        othersOfX == Range(pre.tens[x].targets) \ {t1}
        consumersOfZ == Range(pre.tens[z].targets)
    IN /\ Range(g.tens[x].targets) = othersOfX \cup consumersOfZ
       /\ \A o \in othersOfX : Reads(g, o, x) /\ InSeq(g.tens[x].targets, o)
       /\ P # None
          => \A c \in consumersOfZ :
                InSeq(g.oper[P].successors, c) /\ InSeq(g.oper[c].predecessors, P)
       /\ \A o \in OpsOf(g) :
             /\ ~InSeq(g.oper[o].predecessors, t1) /\ ~InSeq(g.oper[o].predecessors, t2)
             /\ ~InSeq(g.oper[o].successors, t1) /\ ~InSeq(g.oper[o].successors, t2)

\* (C22) After optimize has eliminated the inverse pair x -> T1 -> y -> T2 -> z
\* of a graph whose links were consistent, the links of all neighbours are
\* restored: x.targets holds the consumers of x other than T1 and the former
\* consumers of z; every other consumer of x still reads x and is in x.targets;
\* when x has a producer P, every former consumer of z is a successor of P and
\* has P as a predecessor; and no listed operator has T1 or T2 as a
\* predecessor or a successor.
C22_NeighboursRelinked ==
    (AfterOptimize /\ WellLinked(last.pre))
    => \A t1, t2 \in OpsOf(last.pre) :
          InverseChain(last.pre, t1, t2) => C22_Post(last.pre, Graph, t1, t2)

---------------------------------------------------------------------------
(* Specification SpecMutate: every call that changes the structure of the
   graph (the adds of tensors and operators, the removals, optimize), mixed
   with topo_sort, the caller letting go of its Refs and taking Refs from
   getOperators at any time. *)

MaxMutateTensors == 3    \* tensors added by addTensor
MutateMenu ==
    { Transpose(1, 2, Swap2), Transpose(2, 3, Swap2), Matmul(1, 2, 3, FALSE, FALSE) }

NextMutate ==
    \/ Len(tens) < MaxMutateTensors /\ AddTensor(Square)
    \/ \E d \in MutateMenu : Len(oper) < MaxOps /\ AddOpWithOutputs(d)
    \/ \E d \in MutateMenu : Len(oper) < MaxOps /\ Len(tens) < MaxMutateTensors /\ AddOp(d)
    \/ \E o \in 1..(MaxOps + MaxMade) : Release(o)
    \/ \E o \in 1..(MaxOps + MaxMade) : GetOperators(o)
    \/ \E o \in 1..(MaxOps + MaxMade) : RemoveOperator(o)
    \/ \E t \in 1..MaxMutateTensors : RemoveTensor(t)
    \/ TopoSort
    \/ Optimize

SpecMutate == Init /\ [][NextMutate]_vars

\* the calls that change the structure of the graph
Mutations == { "addOpWithOutputs", "addOp", "removeOperator", "removeTensor", "optimize" }

\* (C23) Every structural mutation of the graph (add-operator, remove-operator,
\* remove-tensor, and optimize) leaves the sorted flag false, so that the next
\* topo_sort recomputes the order instead of returning early.
C23_MutationClearsSorted ==
    last.call \in Mutations => ~sorted

---------------------------------------------------------------------------
(* alloc with a free block at the end of the arena, under SpecArena *)

\* the offsets of the blocks of free-list fb that end at peak p
TailBlocks(fb, p) == { k \in DOMAIN fb : k + fb[k] = p }

\* what alloc does with tail block k of the arena a it was called on: the
\* request is carved from its low end, or the block is used up and peak grows
\* by what is missing
TookTailBlock(a, k, size) ==
    /\ last.ret.addr = k
    /\ used = a.used + size
    /\ IF a.freeBlocks[k] >= size
       THEN /\ freeBlocks = Split(a.freeBlocks, k, size)
            /\ peak = a.peak
       ELSE /\ freeBlocks = MapErase(a.freeBlocks, k)
            /\ peak = a.peak + (size - a.freeBlocks[k])

\* (C24) When a free block ends at peak, alloc returns the offset of that tail
\* block, whichever free block it is that ends there: a block of at least the aligned size is carved from its low end, the
\* remainder stays free and peak is unchanged; a smaller block is used up and
\* peak grows by the aligned size minus the block size; used grows by the
\* aligned size in both cases, and the tail block is taken even when a free
\* block at a lower offset would fit.
C24_TailBlockPreferred ==
    (AfterAlloc /\ TailBlocks(last.arena.freeBlocks, last.arena.peak) # {})
    => \A k \in TailBlocks(last.arena.freeBlocks, last.arena.peak) :
          TookTailBlock(last.arena, k, AskedSize)

---------------------------------------------------------------------------
(* The arena as a partition of [0, peak), under SpecArena *)

\* the byte ranges [a1, a1 + s1) and [a2, a2 + s2) have a byte in common
Overlap(a1, s1, a2, s2) == a1 < a2 + s2 /\ a2 < a1 + s1 /\ s1 > 0 /\ s2 > 0

\* the aligned sizes of the live allocations i..Len(live), added up
RECURSIVE LiveBytes(_, _)
LiveBytes(live, i) ==
    IF i > Len(live) THEN 0 ELSE getAlignedSize(live[i].size) + LiveBytes(live, i + 1)

\* the sizes of the free blocks at the offsets in keys, added up
RECURSIVE FreeBytes(_, _)
FreeBytes(fb, keys) ==
    IF keys = {} THEN 0
    ELSE fb[MinKey(keys)] + FreeBytes(fb, keys \ {MinKey(keys)})

\* (C25) After any sequence of alloc calls (size 0 included) and frees of ranges
\* alloc returned and that are not yet freed, the live ranges and the free
\* blocks are pairwise disjoint and together cover [0, peak): no two live
\* ranges overlap, no live range overlaps a free block, used is the total
\* aligned size of the live ranges, and used plus the total free size is peak.
C25_ArenaPartition ==
    /\ \A i, j \in 1..Len(caller.live) :
          i # j => ~Overlap(caller.live[i].addr, getAlignedSize(caller.live[i].size),
                            caller.live[j].addr, getAlignedSize(caller.live[j].size))
    /\ \A i \in 1..Len(caller.live) : \A k \in DOMAIN freeBlocks :
          ~Overlap(caller.live[i].addr, getAlignedSize(caller.live[i].size), k, freeBlocks[k])
    /\ \A k1, k2 \in DOMAIN freeBlocks :
          k1 # k2 => ~Overlap(k1, freeBlocks[k1], k2, freeBlocks[k2])
    /\ used = LiveBytes(caller.live, 1)
    /\ used + FreeBytes(freeBlocks, DOMAIN freeBlocks) = peak

---------------------------------------------------------------------------
(* Specification SpecFuseShape: MatmulObj::inferShape on the operands of a
   MatMul one of which comes from a last-two-dimensions Transpose, as they are
   before the fusion and as fuseTransposeIntoMatmul passes them to the new MatMul. *)

\* operand shapes of rank 2 and more
FuseShapes == UNION { [1..n -> 1..MaxDim] : n \in 2..MaxRank }

\* the permutation of rank r that swaps the last two dimensions
LastTwoSwap(r) ==
    [i \in 1..r |-> IF i = r - 1 THEN r - 1 ELSE IF i = r THEN r - 2 ELSE i - 1]

\* inferShape of the MatMul before the fusion: X is the output of the Transpose
OriginalShape(X, other, transA, transB, side) ==
    IF side = "A" THEN MatmulInferShape(X, other, transA, transB)
    ELSE MatmulInferShape(other, X, transA, transB)

\* inferShape of the MatMul the fusion constructs: X0 is the input of the
\* Transpose and the flag of the fused side is negated
FusedShape(X0, other, transA, transB, side) ==
    IF side = "A" THEN MatmulInferShape(X0, other, ~transA, transB)
    ELSE MatmulInferShape(other, X0, transA, ~transB)

\* the record of the two inferShape calls and of what they returned
FuseShapeCalled(X0, other, transA, transB, side, original, fused) ==
    [Called("inferShape", [NoRet EXCEPT !.ok = (original # BadShape)])
        EXCEPT !.args = <<X0, other, transA, transB, side>>, !.value = <<original, fused>>]

\* MatmulObj::inferShape for the MatMul reading Transpose(X0) on one side, and
\* for the MatMul that replaces it in fuseTransposeIntoMatmul
InferFused(X0, other, transA, transB, side) ==
    /\ isLastTwoDimTranspose(LastTwoSwap(Len(X0)), Len(X0))
    /\ last' = FuseShapeCalled(X0, other, transA, transB, side,
                   OriginalShape(TransposeInferShape(X0, LastTwoSwap(Len(X0))),
                                 other, transA, transB, side),
                   FusedShape(X0, other, transA, transB, side))
    /\ UNCHANGED <<tensors, ops, tens, oper, sorted, used, peak, freeBlocks, ptr,
                   runtime, destroyed, caller>>

\* one pair of calls per behaviour
NextFuseShape ==
    /\ last.call = "init"
    /\ \E X0, other \in FuseShapes : \E transA, transB \in BOOLEAN : \E side \in {"A", "B"} :
          InferFused(X0, other, transA, transB, side)

SpecFuseShape == Init /\ [][NextFuseShape]_vars

\* the graph holding X0, the other operand and an output tensor C of shape shapeC
FusedOperands(X0, other, shapeC) ==
    addTensor(addTensor(addTensor(EmptyGraph, X0), other), shapeC)

\* the constructor assertion of the MatMul the fusion builds, against C
FusedValid(g, transA, transB, side) ==
    IF side = "A" THEN MatmulValid(g, 1, 2, 3, ~transA, transB)
    ELSE MatmulValid(g, 2, 1, 3, transA, ~transB)

\* (C26) Fusion keeps the output shape of the MatMul: for all operand shapes of
\* rank 2 and more and all transA, transB, inferShape of MatMul(X0, other) with
\* the flag of the fused operand negated gives what inferShape of the original
\* MatMul(Transpose(X0), other) gives when the Transpose swaps only the last two
\* dimensions, so that the new MatMul passes its constructor's validity
\* assertion against the output tensor C of the original.
C26_FusionKeepsShape ==
    last.call = "inferShape"
    => /\ last.value[2] = last.value[1]
       /\ last.ret.ok
          => FusedValid(FusedOperands(last.args[1], last.args[2], last.value[1]),
                        last.args[3], last.args[4], last.args[5])

\* (C26, witness) the B operand of a valid batched MatMul came from a Transpose
\* of a tensor whose last two dimensions differ, and both calls gave the same
\* shape of rank three
C26_Witness ==
    /\ last.call = "inferShape"
    /\ last.ret.ok
    /\ last.args[5] = "B"
    /\ Len(last.args[1]) = 3
    /\ last.args[1][2] # last.args[1][3]
    /\ last.value[2] = last.value[1]
    /\ Len(last.value[1]) = 3

====
